---- MODULE Spec2Model ----
(***************************************************************************)
(* Model of the Odexpo gallery scraper: the category BFS crawl, the image  *)
(* download pipeline and the metadata persistence of                       *)
(* src/crawler.py (PlaywrightOdexpoGalleryCrawler),                        *)
(* src/advanced_crawler.py (AdvancedOdexpoGalleryCrawler) and              *)
(* src/utils/helpers.py.                                                   *)
(*                                                                         *)
(* Text is a sequence of one-character strings.  A URL is a record of the  *)
(* parts that urlparse / parse_qs hand to the code: the host, the decoded  *)
(* values of the galerie and ng query parameters (parse_qs drops blank     *)
(* values, so an absent parameter and an empty one are both <<>> / 0) and  *)
(* the num page number.                                                    *)
(***************************************************************************)
EXTENDS Integers, Sequences, FiniteSets, TLC

\* ------------------------------------------------------------------ bounds
MaxNum      == 1   \* numbered pages a category URL can name
MaxLinks    == 2   \* pagination anchors read on one page
MaxCats     == 2   \* category links read on the gallery page
CrawlImgs   == 1   \* image candidates per session, crawl scope
DownloadImgs == 3  \* image candidates per session, download scope
PersistImgs == 2   \* image candidates per session, persistence scope
MaxRuns     == 2   \* sessions started one after the other, rerun scope
RerunImgs   == 1   \* image candidates per session, rerun scope

\* --------------------------------------------------------------- constants
ALLOWED_DOMAIN == "fabienne-vincent.odexpo.com"
MISC == <<"m","i","s","c","e","l","l","a","n","e","o","u","s">>

\* ------------------------------------------------------------ text helpers
IsSpace(c) == c = " "

RECURSIVE LStrip(_, _)
LStrip(s, c) == IF s # <<>> /\ Head(s) = c THEN LStrip(Tail(s), c) ELSE s

RECURSIVE RStrip(_, _)
RStrip(s, c) ==
  IF s # <<>> /\ s[Len(s)] = c THEN RStrip(SubSeq(s, 1, Len(s) - 1), c) ELSE s

\* str.strip() / str.strip('_')
StripChar(s, c) == RStrip(LStrip(s, c), c)
Strip(s) == StripChar(s, " ")

\* re.sub(c+, c, s): runs of the character c become one c
RECURSIVE CollapseRuns(_, _)
CollapseRuns(s, c) ==
  IF Len(s) < 2 THEN s
  ELSE IF s[1] = c /\ s[2] = c THEN CollapseRuns(Tail(s), c)
       ELSE <<s[1]>> \o CollapseRuns(Tail(s), c)

\* s.replace(a, b) for single characters
MapChar(s, a, b) == [i \in 1..Len(s) |-> IF s[i] = a THEN b ELSE s[i]]

Take(s, n) == IF Len(s) > n THEN SubSeq(s, 1, n) ELSE s

\* str.lower() on the alphabet of the model
LowerChar(c) ==
  CASE c = "A" -> "a"
    [] c = "B" -> "b"
    [] c = "C" -> "c"
    [] c = "F" -> "f"
    [] c = "N" -> "n"
    [] c = "X" -> "x"
    [] c = "É" -> "é"
    [] OTHER   -> c
Lower(s) == [i \in 1..Len(s) |-> LowerChar(s[i])]

\* re.split(r'[,\n\r\t]+', s)[0]: the text before the first separator
RECURSIVE FirstPart(_)
FirstPart(s) ==
  IF s = <<>> \/ Head(s) = "," THEN <<>> ELSE <<Head(s)>> \o FirstPart(Tail(s))

\* urllib.parse.unquote_plus on text without percent escapes: '+' -> ' '
unquote_plus(s) == MapChar(s, "+", " ")

\* helpers.clean_description_for_folder
clean_description_for_folder(description) ==
  IF description = <<>> THEN MISC
  ELSE LET ws     == CollapseRuns(Strip(description), " ")
           first  == Strip(FirstPart(ws))
           part   == IF first # <<>> THEN first ELSE ws
           safe   == MapChar(MapChar(part, "/", "_"), ":", "_")
           low    == MapChar(Lower(safe), " ", "_")
           single == StripChar(CollapseRuns(low, "_"), "_")
       IN  IF Len(single) < 2 THEN MISC ELSE Take(single, 50)

\* ------------------------------------------------------- rename_files.py
LowerLetters == {"a","b","c","d","e","f","g","h","i","j","k","l","m","n",
                 "o","p","q","r","s","t","u","v","w","x","y","z"}
Digits == {"0","1","2","3","4","5","6","7","8","9"}
UNTITLED == <<"u","n","t","i","t","l","e","d">>

\* the combining acute accent U+0301, the only character of category Mn here
COMBINING_ACUTE == "ACUTE"

\* unicodedata.normalize('NFD', s): a precomposed letter becomes the letter
\* followed by its combining mark
RECURSIVE NFD(_)
NFD(s) ==
  IF s = <<>> THEN <<>>
  ELSE (IF Head(s) = "é" THEN <<"e", COMBINING_ACUTE>> ELSE <<Head(s)>>)
       \o NFD(Tail(s))

\* ''.join(char for char in s if unicodedata.category(char) != 'Mn')
DropMarks(s) == SelectSeq(s, LAMBDA c : c # COMBINING_ACUTE)

\* re.sub(r'[cls]+', r, s): every run of characters of cls becomes r
RECURSIVE SubRuns(_, _, _)
SubRuns(s, cls, r) ==
  IF s = <<>> THEN <<>>
  ELSE IF Head(s) \notin cls THEN <<Head(s)>> \o SubRuns(Tail(s), cls, r)
  ELSE IF Len(s) > 1 /\ s[2] \in cls THEN SubRuns(Tail(s), cls, r)
  ELSE r \o SubRuns(Tail(s), cls, r)

\* a clean_category that drops the foreign characters last, after the
\* hyphens were collapsed and trimmed (fault for C15)
clean_category_filter_last(category) ==
  IF category = <<>> THEN MISC
  ELSE LET low     == DropMarks(NFD(Lower(category)))
           hyphens == SubRuns(low, {"_", " "}, <<"-">>)
           trimmed == StripChar(CollapseRuns(hyphens, "-"), "-")
           cleaned == SelectSeq(trimmed, LAMBDA c : c \in LowerLetters \cup Digits \cup {"-"})
       IN  IF cleaned = <<>> THEN MISC ELSE cleaned

\* a clean_category that leaves the hyphens at the ends (fault for C16)
clean_category_untrimmed(category) ==
  IF category = <<>> THEN MISC
  ELSE LET low     == DropMarks(NFD(Lower(category)))
           hyphens == SubRuns(low, {"_", " "}, <<"-">>)
           kept    == SelectSeq(hyphens, LAMBDA c : c \in LowerLetters \cup Digits \cup {"-"})
           cleaned == CollapseRuns(kept, "-")
       IN  IF cleaned = <<>> THEN MISC ELSE cleaned

\* rename_files.clean_category
clean_category(category) ==
  IF category = <<>> THEN MISC
  ELSE LET low     == DropMarks(NFD(Lower(category)))
           hyphens == SubRuns(low, {"_", " "}, <<"-">>)
           kept    == SelectSeq(hyphens, LAMBDA c : c \in LowerLetters \cup Digits \cup {"-"})
           cleaned == StripChar(CollapseRuns(kept, "-"), "-")
       IN  IF cleaned = <<>> THEN MISC ELSE cleaned

\* rename_files.clean_title_for_filename
clean_title_for_filename(title) ==
  IF title = <<>> THEN UNTITLED
  ELSE LET low     == DropMarks(NFD(Lower(title)))
           under   == [i \in 1..Len(low) |->
                         IF low[i] \in LowerLetters \cup Digits THEN low[i] ELSE "_"]
           cleaned == Take(StripChar(CollapseRuns(under, "_"), "_"), 50)
       IN  IF cleaned = <<>> THEN UNTITLED ELSE cleaned

\* the index of the last '.' of p, 0 when there is none
RECURSIVE LastDot(_)
LastDot(p) ==
  IF p = <<>> THEN 0
  ELSE IF p[Len(p)] = "." THEN Len(p) ELSE LastDot(SubSeq(p, 1, Len(p) - 1))

\* os.path.splitext on a name without directory separators: the extension
\* starts at the last dot unless only dots come before it
splitext(p) ==
  LET dot == LastDot(p)
  IN  IF dot > 0 /\ \E i \in 1..(dot - 1) : p[i] # "."
      THEN <<SubSeq(p, 1, dot - 1), SubSeq(p, dot, Len(p))>>
      ELSE <<p, <<>>>>

\* str.zfill(3) of a text without sign
RECURSIVE zfill3(_)
zfill3(d) == IF Len(d) >= 3 THEN d ELSE zfill3(<<"0">> \o d)

\* an extract_last_three_digits that reads the extension too (fault for C17)
extract_last_three_digits_ext(filename) ==
  LET digits == SelectSeq(filename, LAMBDA c : c \in Digits)
  IN  IF Len(digits) >= 3 THEN SubSeq(digits, Len(digits) - 2, Len(digits))
      ELSE IF Len(digits) > 0 THEN zfill3(digits)
      ELSE <<"0","0","0">>

\* rename_files.extract_last_three_digits
extract_last_three_digits(filename) ==
  LET digits == SelectSeq(splitext(filename)[1], LAMBDA c : c \in Digits)
  IN  IF Len(digits) >= 3 THEN SubSeq(digits, Len(digits) - 2, Len(digits))
      ELSE IF Len(digits) > 0 THEN zfill3(digits)
      ELSE <<"0","0","0">>

\* ---------------------------------------------------------------- the site
NONE == <<"None">>                       \* Python's None for optional text
SITE == ALLOWED_DOMAIN
WWW  == "www.fabienne-vincent.odexpo.com"
EXT  == "other.example.com"

Url(h, g, n, k) == [host |-> h, galerie |-> g, ng |-> n, num |-> k]

GalleryUrl == Url(SITE, <<>>, <<>>, 0)   \* config.GALLERY_URL, page=10076

\* ng values as parse_qs returns them: "Ab", "Ab " (written ng=Ab+), "C+d"
NgAb  == <<"A","b">>
NgAbS == <<"A","b"," ">>
NgCd  == <<"C","+","d">>

\* the gallery page; pages 1..MaxNum of galerie 1 (ng=Ab); the first page
\* of galerie 2, whose ng is written Ab+; the first page of galerie 3
\* (ng=C%2Bd); a page of galerie 1 on another host
PageUrls ==
  {GalleryUrl}
  \cup {Url(SITE, <<"1">>, NgAb, k) : k \in 1..MaxNum}
  \cup {Url(SITE, <<"2">>, NgAbS, 1), Url(SITE, <<"3">>, NgCd, 1)}
  \cup {Url(EXT, <<"1">>, NgAb, 2)}

\* the gallery page and the first pages of galerie 1 and galerie 2
FirstPages ==
  {GalleryUrl, Url(SITE, <<"1">>, NgAb, 1), Url(SITE, <<"2">>, NgAbS, 1)}

\* the URLs the gallery page lists as category links
SeedUrls == {u \in PageUrls : u.num <= 1 /\ u.host = SITE}

\* helpers.is_allowed_domain
is_allowed_domain(url) == url.host = ALLOWED_DOMAIN \/ url.host = WWW

\* crawler.py _extract_category_from_url: ng only, decoded again and trimmed
extract_category_playwright(url) ==
  IF url.ng # <<>> THEN Strip(unquote_plus(url.ng)) ELSE NONE

\* advanced_crawler.py _extract_category_from_url: ng, else galerie, as is
extract_category_crawl4ai(url) ==
  IF url.ng # <<>> THEN url.ng
  ELSE IF url.galerie # <<>> THEN url.galerie ELSE NONE

_extract_category_from_url(v, url) ==
  IF v # "crawl4ai" THEN extract_category_playwright(url)
  ELSE extract_category_crawl4ai(url)

\* ------------------------------------------------------------- image URLs
\* host, the digits of the images/<gid>/ path segment (0: no such segment),
\* and the last path segment split as os.path.splitext splits it; sfx holds
\* the _<n> groups that end the base name
Img(h, g, st, sf, e) == [host |-> h, gid |-> g, stem |-> st, sfx |-> sf, ext |-> e]

\* images/1/a.jpg; images/2/a.jpg on another host; images/1/a_1.jpg;
\* images/1/c, a path without extension
ImageUrls ==
  { Img(SITE, 1, <<"a">>, <<>>, ".jpg"),
    Img(EXT,  2, <<"a">>, <<>>, ".jpg"),
    Img(SITE, 1, <<"a">>, <<1>>, ".jpg"),
    Img(SITE, 1, <<"c">>, <<>>, "") }

FileName(st, sf, e) == [stem |-> st, sfx |-> sf, ext |-> e]

\* placeholders for "no URL", "no image src", "no path", "no record"
NoUrl    == Url("", <<>>, <<>>, 0)
NoImage  == Img("", 0, <<>>, <<>>, "")
NoPath   == [dir |-> 0, folder |-> <<>>, name |-> FileName(<<>>, <<>>, "")]
NoRecord == [filename |-> FileName(<<>>, <<>>, ""), original_url |-> NoImage,
             local_path |-> NoPath, file_size |-> 0, source_page |-> NoUrl,
             title |-> <<>>, category |-> <<>>, crawl_run |-> 0]

\* os.path.basename(urlparse(image_url).path)
basename(img) == FileName(img.stem, img.sfx, img.ext)

SUPPORTED_IMAGE_EXTENSIONS == {".jpg", ".jpeg", ".png", ".gif", ".webp", ".bmp"}

\* helpers.is_image_url
is_image_url(img) == img.ext \in SUPPORTED_IMAGE_EXTENSIONS

\* ------------------------------------------------------------------- state
VARIABLES
  variant,              \* "playwright" (crawler.py), "crawl4ai" (advanced_crawler.py), "debug" (debug_crawler.py)
  run,                  \* number of sessions started so far
  run_dir,              \* self.run_dir: 0 is config.ASSETS_DIR, k the timestamped directory of run k
  pc,                   \* position of the session's single flow of control
  visited_urls,         \* self.visited_urls
  downloaded_images,    \* self.downloaded_images
  downloaded_urls,      \* self.downloaded_urls
  categories_found,     \* self.categories_found
  gallery_categories,   \* the categories still to process (categories_to_process)
  category_seed,        \* category['url'] of the category run in progress
  category_queue,       \* category_queue of crawl_category_completely
  visited_in_category,  \* visited_in_category of crawl_category_completely
  pages_in_category,    \* pages_in_category of crawl_category_completely
  current_url,          \* url of the crawl_page_thoroughly call in progress
  caller,               \* "bfs" or "fallback": who called crawl_page_thoroughly
  img_idx,              \* image candidates handled so far in the session
  overlay_open,         \* a lightbox overlay is open in the page being read
  disk,                 \* the image files on disk
  metadata_files,       \* the metadata.json of every run directory
  last,                 \* what the most recent download attempt did
  offered,              \* image URLs offered for download in this session
  page_result,          \* how the most recent crawl_page_thoroughly call ended
  save_result,          \* how the most recent save_metadata call ended
  nav_count,            \* navigations per page URL in the current session
  scope,                \* the site and the inputs of this exploration
  dirs,                 \* the category folders that exist under the images directories
  renamer,              \* the locals of the rename_files_in_metadata call in progress
  text                  \* the argument and the result of the last function applied on its own

vars == <<variant, run, run_dir, pc, visited_urls, downloaded_images,
          downloaded_urls, categories_found, gallery_categories, category_seed,
          category_queue, visited_in_category, pages_in_category, current_url,
          caller, img_idx, overlay_open, disk, metadata_files, last, offered,
          page_result,
          save_result, nav_count, scope, dirs, renamer, text>>

\* variables grouped by who writes them
session_vars  == <<variant, run, run_dir, scope, renamer, text>>
download_vars == <<downloaded_images, downloaded_urls, categories_found, disk,
                   dirs, last, offered>>
category_vars == <<gallery_categories, category_seed, category_queue,
                   visited_in_category, pages_in_category>>
page_vars     == <<visited_urls, nav_count, current_url, caller, img_idx,
                   overlay_open>>

RunDirs == 0..MaxRuns

Absent  == [state |-> "absent",  records |-> <<>>]
Corrupt == [state |-> "corrupt", records |-> <<>>]
Saved(records) == [state |-> "ok", records |-> records]

NoAttempt == [url |-> NoImage, fetched |-> FALSE, wrote |-> NoPath,
              existed |-> FALSE, result |-> "none", preview |-> NoImage]

SeqToSet(s) == {s[i] : i \in 1..Len(s)}

\* sequences of length 0..n over S
SeqsUpTo(S, n) == UNION {[1..k -> S] : k \in 0..n}

FetchOutcomes == {"200", "404", "error"}
WriteOutcomes == {"ok", "open_failed", "write_failed"}
SaveOutcomes  == {"ok", "open_failed", "write_failed"}
MAX_IMAGE_SIZE == 52428800
PayloadSizes == {1, MAX_IMAGE_SIZE + 1}
NO_DESCRIPTION == <<"N","o"," ","d","e","s","c","r","i","p","t","i","o","n">>
Descriptions == {<<>>, <<"C"," ","d">>}

\* ------------------------------------------------------------------ scopes
\* a scope in which the renamer does not run, nothing is deleted and the
\* candidates whose overlay fails have no source of their own
NoRenames == [passes |-> 0, dry_run |-> {}, move |-> {}, deletes |-> 0,
              previews |-> {NoImage}]

\* the crawl scope: every page URL and both link shapes; the image
\* candidates of its pages carry no image URL
CrawlScope ==
  [pages |-> PageUrls, links |-> MaxLinks, cats |-> MaxCats, images |-> {},
   imgs |-> CrawlImgs, runs |-> 1, timestamped |-> {TRUE},
   fetch |-> {"200", "404"}, sizes |-> {1}, mkdir |-> {TRUE},
   write |-> {"ok"}, descs |-> {<<>>}, save |-> {"ok"}] @@ NoRenames

\* the download scope: one category a session and one anchor a page over
\* the first pages of two galleries, every image URL, every outcome of the
\* fetch and the write
DownloadScope ==
  [pages |-> FirstPages, links |-> 1, cats |-> 1,
   images |-> ImageUrls,
   imgs |-> DownloadImgs, runs |-> 1, timestamped |-> {TRUE},
   fetch |-> FetchOutcomes, sizes |-> {1}, mkdir |-> {TRUE},
   write |-> WriteOutcomes, descs |-> {<<>>}, save |-> {"ok"}] @@ NoRenames

\* the persistence scope: the same pages, every outcome of a
\* save and of the folder creation, both payload sizes
PersistScope ==
  [pages |-> FirstPages, links |-> 1, cats |-> 1,
   images |-> {Img(SITE, 1, <<"a">>, <<>>, ".jpg"), Img(EXT, 2, <<"a">>, <<>>, ".jpg")},
   imgs |-> PersistImgs, runs |-> 1, timestamped |-> {TRUE},
   fetch |-> {"200", "404"}, sizes |-> PayloadSizes, mkdir |-> BOOLEAN,
   write |-> {"ok", "write_failed"}, descs |-> Descriptions, save |-> SaveOutcomes] @@ NoRenames

\* the rerun scope: sessions one after the other over a one-page category
RerunScope ==
  [pages |-> {GalleryUrl, Url(SITE, <<"1">>, NgAb, 1)}, links |-> 1, cats |-> 1,
   images |-> {Img(SITE, 1, <<"a">>, <<>>, ".jpg"), Img(EXT, 2, <<"a">>, <<>>, ".jpg")},
   imgs |-> RerunImgs, runs |-> MaxRuns, timestamped |-> BOOLEAN,
   fetch |-> {"200", "404"}, sizes |-> {1}, mkdir |-> {TRUE},
   write |-> {"ok", "write_failed"}, descs |-> {<<>>}, save |-> SaveOutcomes] @@ NoRenames

\* helpers.load_metadata: a missing or unparsable file loads as []
load_metadata(file) == IF file.state = "ok" THEN file.records ELSE <<>>

\* the preload that leaves downloaded_urls empty (fault for C39)
get_downloaded_urls_from_metadata_none(metadata) == {}

\* helpers.get_downloaded_urls_from_metadata
get_downloaded_urls_from_metadata(metadata) ==
  {metadata[i].original_url : i \in 1..Len(metadata)}

\* no rename_files_in_metadata call is in progress
NoRenamer == [metadata_file |-> 0, dry_run |-> TRUE, metadata |-> <<>>, i |-> 0,
              renamed_count |-> 0, error_count |-> 0, passes |-> 0,
              outcome |-> "none", moved_to |-> NoPath, intact |-> FALSE,
              deleted |-> 0]

\* no function was applied on its own
NoText == [fn |-> "none", input |-> <<>>, arg |-> <<>>, res |-> <<>>, calls |-> 0]

\* the crawler a scope names; a scope that names none is explored with both
\* production crawlers
Crawlers(sc) ==
  IF "crawler" \in DOMAIN sc THEN {sc.crawler} ELSE {"playwright", "crawl4ai"}

\* the state before the first session, for a given scope
NoSession(sc) ==
  /\ scope = sc
  /\ variant \in Crawlers(sc)
  /\ run = 0
  /\ run_dir = 0
  /\ pc = "idle"
  /\ visited_urls = {}
  /\ downloaded_images = <<>>
  /\ downloaded_urls = {}
  /\ categories_found = {}
  /\ gallery_categories = <<>>
  /\ category_seed = NoUrl
  /\ category_queue = <<>>
  /\ visited_in_category = {}
  /\ pages_in_category = 0
  /\ current_url = NoUrl
  /\ caller = "none"
  /\ img_idx = 0
  /\ overlay_open = FALSE
  /\ disk = {}
  /\ metadata_files = [d \in RunDirs |-> Absent]
  /\ last = NoAttempt
  /\ offered = {}
  /\ page_result = "none"
  /\ save_result = "none"
  /\ nav_count = [u \in PageUrls |-> 0]
  /\ dirs = {}
  /\ renamer = NoRenamer

InitIn(sc) == NoSession(sc) /\ text = NoText

Init == InitIn(CrawlScope)
InitDownload == InitIn(DownloadScope)
InitPersist == InitIn(PersistScope)
InitRerun == InitIn(RerunScope)

\* __init__ and __aenter__: a new session object; existing metadata of the
\* run's metadata file seeds downloaded_images and downloaded_urls
StartSession(use_timestamped_run) ==
  /\ pc = "idle"
  /\ run < scope.runs
  /\ run' = run + 1
  /\ run_dir' = IF use_timestamped_run THEN run + 1 ELSE 0
  /\ LET existing_metadata == load_metadata(metadata_files[run_dir'])
     IN  /\ downloaded_images' = existing_metadata
         /\ downloaded_urls' = get_downloaded_urls_from_metadata(existing_metadata)
  /\ visited_urls' = {}
  /\ categories_found' = {}
  /\ gallery_categories' = <<>>
  /\ category_seed' = NoUrl
  /\ category_queue' = <<>>
  /\ visited_in_category' = {}
  /\ pages_in_category' = 0
  /\ current_url' = NoUrl
  /\ caller' = "none"
  /\ img_idx' = 0
  /\ overlay_open' = FALSE
  /\ last' = NoAttempt
  /\ offered' = {}
  /\ page_result' = "none"
  /\ save_result' = "none"
  /\ nav_count' = [u \in PageUrls |-> 0]
  /\ pc' = "discover"
  /\ UNCHANGED <<variant, scope, disk, dirs, metadata_files, renamer, text>>

\* -------------------------------------------------------- save_metadata
\* the file opened with 'a' instead of 'w' (fault for C10)
save_metadata_append(file, metadata, outcome) ==
  CASE outcome = "ok"           -> Saved(file.records \o metadata)
    [] outcome = "open_failed"  -> file
    [] outcome = "write_failed" -> Corrupt

\* helpers.save_metadata: the file is opened with 'w' (truncated) and the
\* whole collection is written; every exception is caught and printed
save_metadata(file, metadata, outcome) ==
  CASE outcome = "ok"           -> Saved(metadata)
    [] outcome = "open_failed"  -> file
    [] outcome = "write_failed" -> Corrupt

\* a save_metadata(self.downloaded_images, self.metadata_file) call
SaveCall(outcome) ==
  /\ metadata_files' = [metadata_files EXCEPT
                          ![run_dir] = save_metadata(@, downloaded_images, outcome)]
  /\ save_result' = IF outcome = "ok" THEN "ok" ELSE "failed"

\* ------------------------------------------------- category discovery
Category(url) ==
  [name |-> Strip(unquote_plus(url.ng)), value |-> url.galerie, url |-> url]

\* the category list without the seen_ids test (fault for C22)
RECURSIVE UniqueCategories_all(_, _)
UniqueCategories_all(links, seen_ids) ==
  IF links = <<>> THEN <<>>
  ELSE LET u == Head(links)
       IN  IF u.galerie # <<>> /\ u.ng # <<>>
           THEN <<Category(u)>> \o UniqueCategories_all(Tail(links), seen_ids)
           ELSE UniqueCategories_all(Tail(links), seen_ids)

\* extract_gallery_categories_simple: links with galerie= and ng=, the first
\* link of every galerie id
RECURSIVE UniqueCategories(_, _)
UniqueCategories(links, seen_ids) ==
  IF links = <<>> THEN <<>>
  ELSE LET u == Head(links)
       IN  IF u.galerie # <<>> /\ u.ng # <<>> /\ u.galerie \notin seen_ids
           THEN <<Category(u)>> \o UniqueCategories(Tail(links), seen_ids \cup {u.galerie})
           ELSE UniqueCategories(Tail(links), seen_ids)

\* the session ends: crawl_website_advanced returns and __aexit__ runs
EndSession ==
  /\ pc' = "idle"
  /\ current_url' = NoUrl
  /\ caller' = "none"

\* the early returns without the domain check (fault for C34)
PageSkipped_visited_only(url) == url \in visited_urls

\* the early returns without the visited_urls check (fault for C7)
PageSkipped_domain_only(url) == ~is_allowed_domain(url)

\* crawl_page_thoroughly, the two early returns
PageSkipped(url) == url \in visited_urls \/ ~is_allowed_domain(url)

\* the page marked visited only once it has loaded (fault for C35)
EnterPage_marks_loaded(url, who, nav_ok) ==
  /\ visited_urls' = IF nav_ok THEN visited_urls \cup {url} ELSE visited_urls
  /\ nav_count' = [nav_count EXCEPT ![url] = @ + 1]
  /\ UNCHANGED img_idx
  /\ overlay_open' = FALSE
  /\ IF nav_ok
     THEN pc' = "images" /\ current_url' = url /\ caller' = who
          /\ page_result' = "loading"
     ELSE page_result' = "failed"

\* crawl_page_thoroughly up to the page load, for a URL that is not skipped:
\* the mark in visited_urls, then the navigation
EnterPage(url, who, nav_ok) ==
  /\ visited_urls' = visited_urls \cup {url}
  /\ nav_count' = [nav_count EXCEPT ![url] = @ + 1]
  /\ UNCHANGED img_idx
  /\ overlay_open' = FALSE
  /\ IF nav_ok
     THEN pc' = "images" /\ current_url' = url /\ caller' = who
          /\ page_result' = "loading"
     ELSE page_result' = "failed"

\* the category loop without the enqueue (fault for C25)
AfterPage_drops(queue, visited, pagination_links) ==
  /\ category_queue' = queue
  /\ pc' = "save"
  /\ current_url' = NoUrl
  /\ caller' = "none"

\* crawl_category_completely, after crawl_page_thoroughly returned: enqueue
\* the pagination links not visited in this category; the next statement
\* is the save
AfterPage(queue, visited, pagination_links) ==
  /\ category_queue' = queue \o SelectSeq(pagination_links, LAMBDA u : u \notin visited)
  /\ pc' = "save"
  /\ current_url' = NoUrl
  /\ caller' = "none"

\* crawl_website_advanced step 1: discover_gallery_page
DiscoverGallery(found) ==
  /\ pc = "discover"
  /\ IF found
     THEN pc' = "extract" /\ UNCHANGED <<current_url, caller>>
     ELSE EndSession
  /\ UNCHANGED <<session_vars, download_vars, category_vars, visited_urls,
                 nav_count, img_idx, overlay_open, metadata_files, page_result,
                 save_result>>

\* crawl_website_advanced steps 2 and 3: the category list, cut to
\* max_categories; with no category the gallery page itself is crawled
ExtractCategories(links, ok, max_categories, nav_ok) ==
  /\ pc = "extract"
  /\ LET categories == IF ok THEN UniqueCategories(links, {}) ELSE <<>>
     IN  IF categories # <<>>
         THEN /\ gallery_categories' = Take(categories, max_categories)
              /\ pc' = "next_category"
              /\ UNCHANGED <<page_vars, page_result>>
         ELSE /\ gallery_categories' = <<>>
              /\ IF PageSkipped(GalleryUrl)
                 THEN /\ EndSession
                      /\ page_result' = "skipped"
                      /\ UNCHANGED <<visited_urls, nav_count, img_idx, overlay_open>>
                 ELSE /\ EnterPage(GalleryUrl, "fallback", nav_ok)
                      /\ IF nav_ok THEN TRUE ELSE EndSession
  /\ UNCHANGED <<session_vars, download_vars, category_seed, category_queue,
                 visited_in_category, pages_in_category, metadata_files,
                 save_result>>

\* crawl_website_advanced step 4, loop head: the next category starts with
\* its seed URL alone in the queue; after the last one the final save
NextCategory(save_outcome) ==
  /\ pc = "next_category"
  /\ IF gallery_categories # <<>>
     THEN /\ category_seed' = Head(gallery_categories).url
          /\ category_queue' = <<Head(gallery_categories).url>>
          /\ visited_in_category' = {}
          /\ pages_in_category' = 0
          /\ gallery_categories' = Tail(gallery_categories)
          /\ pc' = "bfs"
          /\ UNCHANGED <<metadata_files, save_result, current_url, caller>>
     ELSE /\ SaveCall(save_outcome)
          /\ EndSession
          /\ UNCHANGED category_vars
  /\ UNCHANGED <<session_vars, download_vars, visited_urls, nav_count,
                 img_idx, overlay_open, page_result>>

\* the visited_in_category check that never skips (fault for C1)
VisitedInCategory_never(url) == FALSE

\* crawl_category_completely: if current_url in visited_in_category: continue
VisitedInCategory(url) == url \in visited_in_category

\* the turn that pops the newest URL of the queue (fault for C33)
PopUrl_last(nav_ok) ==
  /\ pc = "bfs"
  /\ category_queue # <<>>
  /\ LET url   == category_queue[Len(category_queue)]
         queue == SubSeq(category_queue, 1, Len(category_queue) - 1)
     IN  IF VisitedInCategory(url)
         THEN /\ category_queue' = queue
              /\ UNCHANGED <<visited_in_category, pages_in_category, page_vars,
                             pc, page_result>>
         ELSE /\ visited_in_category' = visited_in_category \cup {url}
              /\ pages_in_category' = pages_in_category + 1
              /\ IF PageSkipped(url)
                 THEN /\ AfterPage(queue, visited_in_category', <<>>)
                      /\ page_result' = "skipped"
                      /\ UNCHANGED <<visited_urls, nav_count, img_idx, overlay_open>>
                 ELSE /\ EnterPage(url, "bfs", nav_ok)
                      /\ IF nav_ok
                         THEN category_queue' = queue
                         ELSE AfterPage(queue, visited_in_category', <<>>)
  /\ save_result' = "none"
  /\ UNCHANGED <<session_vars, download_vars, gallery_categories, category_seed,
                 metadata_files>>

\* crawl_category_completely, one turn of the while loop up to the page
\* load: pop, skip a URL visited in this category, mark it, count it and
\* enter crawl_page_thoroughly (visited / domain checks, mark, navigation)
PopUrl(nav_ok) ==
  /\ pc = "bfs"
  /\ category_queue # <<>>
  /\ LET url   == Head(category_queue)
         queue == Tail(category_queue)
     IN  IF VisitedInCategory(url)
         THEN /\ category_queue' = queue
              /\ UNCHANGED <<visited_in_category, pages_in_category, page_vars,
                             pc, page_result>>
         ELSE /\ visited_in_category' = visited_in_category \cup {url}
              /\ pages_in_category' = pages_in_category + 1
              /\ IF PageSkipped(url)
                 THEN /\ AfterPage(queue, visited_in_category', <<>>)
                      /\ page_result' = "skipped"
                      /\ UNCHANGED <<visited_urls, nav_count, img_idx, overlay_open>>
                 ELSE /\ EnterPage(url, "bfs", nav_ok)
                      /\ IF nav_ok
                         THEN category_queue' = queue
                         ELSE AfterPage(queue, visited_in_category', <<>>)
  /\ save_result' = "none"
  /\ UNCHANGED <<session_vars, download_vars, gallery_categories, category_seed,
                 metadata_files>>

\* the turn of the while loop that ends without the save (fault for C30)
SavePage_skips(save_outcome) ==
  /\ pc = "save"
  /\ pc' = "bfs"
  /\ page_result' = "none"
  /\ last' = NoAttempt
  /\ UNCHANGED <<session_vars, downloaded_images, downloaded_urls,
                 categories_found, disk, dirs, offered, category_vars, page_vars,
                 metadata_files, save_result>>

\* crawl_category_completely, the end of a turn of the while loop:
\* save_metadata(self.downloaded_images, self.metadata_file), then the loop
\* test
SavePage(save_outcome) ==
  /\ pc = "save"
  /\ SaveCall(save_outcome)
  /\ pc' = "bfs"
  /\ page_result' = "none"
  /\ last' = NoAttempt
  /\ UNCHANGED <<session_vars, downloaded_images, downloaded_urls,
                 categories_found, disk, dirs, offered, category_vars, page_vars>>

\* crawl_category_completely: the queue is empty, the category is exhausted
CategoryExhausted ==
  /\ pc = "bfs"
  /\ category_queue = <<>>
  /\ pc' = "next_category"
  /\ save_result' = "none"
  /\ UNCHANGED <<session_vars, download_vars, category_vars, page_vars,
                 metadata_files, page_result>>

\* ------------------------------------------------------------ downloads
Path(dir, folder, name) == [dir |-> dir, folder |-> folder, name |-> name]

\* the category folder `folder` under the images directory of run directory dir
Dir(dir, folder) == [dir |-> dir, folder |-> folder]
PathOf(f) == Path(f.dir, f.folder, f.name)

\* os.path.exists
exists(files, path) == \E f \in files : PathOf(f) = path

\* f"{base_name}_{counter}{ext}"
WithCounter(filename, counter) ==
  FileName(filename.stem, filename.sfx \o <<counter>>, filename.ext)

\* the conflict loop left out: the name as it is (fault for C4)
ResolveConflict_none(files, dir, folder, filename, counter) == filename

\* the filename conflict loop of download_image and
\* _download_image_from_lightbox: the name itself, else the first of
\* name_1, name_2, ... that does not exist in the folder
RECURSIVE ResolveConflict(_, _, _, _, _)
ResolveConflict(files, dir, folder, filename, counter) ==
  LET candidate == IF counter = 0 THEN filename ELSE WithCounter(filename, counter)
  IN  IF exists(files, Path(dir, folder, candidate))
      THEN ResolveConflict(files, dir, folder, filename, counter + 1)
      ELSE candidate

\* the folder named by the description as it is (fault for C29)
create_directory_structure_custom_raw(description, mkdir_ok) ==
  IF mkdir_ok THEN description ELSE <<>>

\* helpers.create_directory_structure_custom: the category folder, or the
\* images directory itself when the folder cannot be made
create_directory_structure_custom(description, mkdir_ok) ==
  IF mkdir_ok THEN clean_description_for_folder(description) ELSE <<>>

Attempt(image_url, fetched, wrote, existed, result) ==
  [url |-> image_url, fetched |-> fetched, wrote |-> wrote,
   existed |-> existed, result |-> result, preview |-> NoImage]

\* the GET did not answer 200, or raised: nothing is written
FetchFailed(image_url) ==
  [record |-> NoRecord, files |-> disk, dirs |-> {},
   attempt |-> Attempt(image_url, TRUE, NoPath, FALSE, "failed")]

\* the caption the site's lightbox shows for an image: the text of the b
\* element of .mfp-title
LightboxTitles(img) ==
  CASE img.stem = <<"a">> /\ img.sfx = <<>> /\ img.host = SITE -> <<"A"," ","b">>
    [] img.stem = <<"c">>                                     -> <<"a"," "," ","B">>
    [] OTHER                                                  -> <<>>

\* crawler.py clean_text_field on text without entities and tags: runs of
\* whitespace become one space, the ends are trimmed
clean_text_field(t) == Strip(CollapseRuns(t, " "))

\* the title a record is read with (item.get('title', '')): the cleaned
\* lightbox title in crawler.py; helpers.download_image writes no title
RecordTitle(image_url) ==
  IF variant # "crawl4ai" THEN clean_text_field(LightboxTitles(image_url)) ELSE <<>>

\* Store that returns the record although the write broke off (fault for C3)
Store_marks_partial(image_url, source_page, final_category, size, mkdir_ok, write) ==
  LET folder   == create_directory_structure_custom(final_category, mkdir_ok)
      filename == ResolveConflict(disk, run_dir, folder, basename(image_url), 0)
      path     == Path(run_dir, folder, filename)
      file     == [dir |-> run_dir, folder |-> folder, name |-> filename,
                   url |-> image_url, complete |-> write = "ok"]
      record   == [filename |-> filename, original_url |-> image_url,
                   local_path |-> path, file_size |-> size,
                   source_page |-> source_page, title |-> RecordTitle(image_url),
                   category |-> final_category, crawl_run |-> run_dir]
      made     == IF folder = <<>> THEN {} ELSE {Dir(run_dir, folder)}
  IN  IF write = "open_failed"
      THEN [record |-> NoRecord, files |-> disk, dirs |-> made,
            attempt |-> Attempt(image_url, TRUE, NoPath, FALSE, "failed")]
      ELSE [record |-> record,
            files  |-> {f \in disk : PathOf(f) # path} \cup {file},
            dirs   |-> made,
            attempt |-> Attempt(image_url, TRUE, path, exists(disk, path),
                                IF write = "ok" THEN "record" ELSE "failed")]

\* after a 200 answer, common to download_image and
\* _download_image_from_lightbox: the folder, the conflict-free name, the
\* write; the record is returned only after a full write
Store(image_url, source_page, final_category, size, mkdir_ok, write) ==
  LET folder   == create_directory_structure_custom(final_category, mkdir_ok)
      filename == ResolveConflict(disk, run_dir, folder, basename(image_url), 0)
      path     == Path(run_dir, folder, filename)
      file     == [dir |-> run_dir, folder |-> folder, name |-> filename,
                   url |-> image_url, complete |-> write = "ok"]
      record   == [filename |-> filename, original_url |-> image_url,
                   local_path |-> path, file_size |-> size,
                   source_page |-> source_page, title |-> RecordTitle(image_url),
                   category |-> final_category, crawl_run |-> run_dir]
      made     == IF folder = <<>> THEN {} ELSE {Dir(run_dir, folder)}
  IN  IF write = "open_failed"
      THEN [record |-> NoRecord, files |-> disk, dirs |-> made,
            attempt |-> Attempt(image_url, TRUE, NoPath, FALSE, "failed")]
      ELSE [record |-> IF write = "ok" THEN record ELSE NoRecord,
            files  |-> {f \in disk : PathOf(f) # path} \cup {file},
            dirs   |-> made,
            attempt |-> Attempt(image_url, TRUE, path, exists(disk, path),
                                IF write = "ok" THEN "record" ELSE "failed")]

\* the duplicate check answered "already downloaded"
Duplicate(image_url) ==
  [record |-> NoRecord, files |-> disk, dirs |-> {},
   attempt |-> Attempt(image_url, FALSE, NoPath, FALSE, "duplicate")]

\* crawler.py _download_image_from_lightbox: the category of the record
LightboxCategory(source_page) ==
  LET category_from_url == extract_category_playwright(source_page)
  IN  IF category_from_url # NONE /\ category_from_url # <<>>
      THEN category_from_url ELSE MISC

\* the category taken from the description whatever the URL holds (fault
\* for C36)
DownloadCategory_description(source_page, desc) ==
  clean_description_for_folder(IF desc # <<>> THEN desc ELSE NO_DESCRIPTION)

\* helpers.download_image: the category of the record, from the source
\* page's ng parameter, else from the cleaned description
DownloadCategory(source_page, desc) ==
  LET description == IF desc # <<>> THEN desc ELSE NO_DESCRIPTION
      cleaned_description == clean_description_for_folder(description)
      ng_value == source_page.ng
      category_from_url == IF ng_value # <<>>
                           THEN Strip(unquote_plus(ng_value)) ELSE NONE
  IN  IF category_from_url # NONE /\ category_from_url # <<>>
      THEN category_from_url ELSE cleaned_description

\* the duplicate check that never finds a URL (fault for C2)
is_duplicate_image_never(image_url, urls) == FALSE

\* the duplicate check: crawler.py line 425, helpers.is_duplicate_image
is_duplicate_image(image_url, urls) == image_url \in urls

\* the bookkeeping after a download attempt: the record is appended and the
\* URL marked (crawler.py 431-438; helpers.py 181 with advanced_crawler.py
\* 363-369)
Bookkeeping(d) ==
  /\ disk' = d.files
  /\ dirs' = dirs \cup d.dirs
  /\ last' = d.attempt
  /\ IF d.record # NoRecord
     THEN /\ downloaded_images' = Append(downloaded_images, d.record)
          /\ downloaded_urls' = downloaded_urls \cup {d.record.original_url}
          /\ categories_found' = categories_found \cup {d.record.category}
     ELSE UNCHANGED <<downloaded_images, downloaded_urls, categories_found>>

\* one download attempt for image_url with the record category given: the
\* duplicate check, the GET, the store and the bookkeeping
DownloadAttempt(image_url, final_category) ==
  /\ offered' = offered \cup {image_url}
  /\ IF is_duplicate_image(image_url, downloaded_urls)
     THEN Bookkeeping(Duplicate(image_url))
     ELSE \E fetch \in scope.fetch :
            IF fetch # "200"
            THEN Bookkeeping(FetchFailed(image_url))
            ELSE \E size \in scope.sizes, mkdir_ok \in scope.mkdir, write \in scope.write :
                   Bookkeeping(Store(image_url, current_url, final_category,
                                     size, mkdir_ok, write))

\* a candidate that leads to no download attempt
NoDownload ==
  /\ last' = NoAttempt
  /\ UNCHANGED <<downloaded_images, downloaded_urls, categories_found, disk,
                 dirs, offered>>

\* crawler.py 451-465, the lightbox raised: a descriptor of the element's
\* own source, with empty title, painting_type and dimensions, is appended
\* to the page's local gallery_images list, which is only counted
PreviewFallback(abs_src) ==
  /\ last' = [NoAttempt EXCEPT !.preview = abs_src]
  /\ UNCHANGED <<downloaded_images, downloaded_urls, categories_found, disk,
                 dirs, offered>>

\* the candidate loop in which a failed overlay ends the page (fault for C31)
LightboxImage_aborts(gallery, overlay, abs_src, fullres_src) ==
  /\ pc = "images"
  /\ variant = "playwright"
  /\ img_idx < scope.imgs
  /\ img_idx' = img_idx + 1
  /\ IF ~gallery THEN NoDownload
     ELSE IF overlay \in {"timeout", "raised"} THEN PreviewFallback(abs_src)
     ELSE IF fullres_src = NoImage THEN NoDownload
     ELSE DownloadAttempt(fullres_src, LightboxCategory(current_url))
  /\ overlay_open' = FALSE
  /\ IF gallery /\ overlay \in {"timeout", "raised"}
     THEN pc' = "save" /\ page_result' = "failed"
     ELSE UNCHANGED <<pc, page_result>>
  /\ UNCHANGED <<session_vars, category_vars, visited_urls, nav_count,
                 current_url, caller, metadata_files, save_result>>

\* how the click on a candidate can end: "ok", the overlay opened, was read
\* and was closed by its .mfp-close button; "timeout", the click or the wait
\* for .mfp-img raised and no overlay opened; "raised", the overlay opened
\* and a query on it raised; "no_close", the overlay opened, was read and
\* shows no .mfp-close button
OverlayOutcomes == {"ok", "timeout", "raised", "no_close"}

\* crawler.py 445-449 and 451: the overlay after the candidate was handled.
\* The click on .mfp-close is the last statement of the try block; the
\* except branch does not close
OverlayAfter(overlay) ==
  CASE overlay = "ok"       -> FALSE
    [] overlay = "timeout"  -> overlay_open
    [] overlay = "raised"   -> TRUE
    [] overlay = "no_close" -> TRUE

\* crawler.py crawl_page_thoroughly, one img element of the page: the
\* gallery filter, the lightbox, the duplicate check on the high-resolution
\* URL, the download and the bookkeeping
LightboxImage(gallery, overlay, abs_src, fullres_src) ==
  /\ pc = "images"
  /\ variant = "playwright"
  /\ img_idx < scope.imgs
  /\ img_idx' = img_idx + 1
  /\ IF ~gallery THEN NoDownload
     ELSE IF overlay \in {"timeout", "raised"} THEN PreviewFallback(abs_src)
     ELSE IF fullres_src = NoImage THEN NoDownload
     ELSE DownloadAttempt(fullres_src, LightboxCategory(current_url))
  /\ overlay_open' = IF gallery THEN OverlayAfter(overlay) ELSE overlay_open
  /\ UNCHANGED <<session_vars, category_vars, pc, visited_urls, nav_count,
                 current_url, caller, metadata_files, page_result, save_result>>

\* advanced_crawler.py crawl_page_thoroughly, one image of result.media,
\* handed to helpers.download_image
MediaImage(src, desc) ==
  /\ pc = "images"
  /\ variant = "crawl4ai"
  /\ img_idx < scope.imgs
  /\ img_idx' = img_idx + 1
  /\ IF src = NoImage
     THEN NoDownload
     ELSE DownloadAttempt(src, DownloadCategory(current_url, desc))
  /\ UNCHANGED <<session_vars, category_vars, pc, visited_urls, nav_count,
                 current_url, caller, overlay_open, metadata_files,
                 page_result, save_result>>

\* ------------------------------------------------------------ pagination
\* crawler.py 490-512: a[href*="num="] anchors with a numeric text and the
\* category of the page
pagination_playwright(url, links) ==
  LET current_category == extract_category_playwright(url)
      Qualifies(l) == /\ l.url.num > 0
                      /\ l.numeric
                      /\ extract_category_playwright(l.url) = current_category
      kept == SelectSeq(links, Qualifies)
  IN  [i \in 1..Len(kept) |-> kept[i].url]

\* advanced_crawler.py _get_pagination_urls
_get_pagination_urls(url, links) ==
  LET current_category == extract_category_crawl4ai(url)
      Qualifies(l) ==
        /\ extract_category_crawl4ai(l.url) = current_category
        /\ \/ l.numeric
           \/ l.url.galerie # <<>> \/ l.url.ng # <<>>   \* CATEGORY_URL_PATTERNS
           \/ l.url.num = 0                              \* 'page=' in the URL
      kept == SelectSeq(links, Qualifies)
  IN  IF current_category = NONE THEN <<>>
      ELSE [i \in 1..Len(kept) |-> kept[i].url]

\* the links of the page without the category check (fault for C5)
PaginationLinks_any(url, links) == [i \in 1..Len(links) |-> links[i].url]

PaginationLinks(url, links) ==
  IF variant # "crawl4ai" THEN pagination_playwright(url, links)
  ELSE _get_pagination_urls(url, links)

\* crawl_page_thoroughly returns to its caller: the category loop enqueues
\* and saves, the fallback of crawl_website_advanced returns at once
ReturnPage(pagination_links) ==
  IF caller = "bfs"
  THEN AfterPage(category_queue, visited_in_category, pagination_links)
  ELSE EndSession /\ UNCHANGED category_queue

\* the rest of crawl_page_thoroughly after the images: the pagination links
FinishPage(links) ==
  /\ pc = "images"
  /\ ReturnPage(PaginationLinks(current_url, links))
  /\ page_result' = "ok"
  /\ UNCHANGED <<session_vars, download_vars, gallery_categories, category_seed,
                 visited_in_category, pages_in_category, visited_urls,
                 nav_count, img_idx, metadata_files, save_result>>
  /\ overlay_open' = FALSE

\* the exception not caught: it ends the session (fault for C6)
PageError_uncaught ==
  /\ pc = "images"
  /\ EndSession
  /\ page_result' = "failed"
  /\ UNCHANGED <<session_vars, download_vars, category_vars, visited_urls,
                 nav_count, img_idx, metadata_files, save_result>>
  /\ overlay_open' = FALSE

\* an exception inside crawl_page_thoroughly's try block (a DOM query that
\* fails while the page is read): caught, the page yields no links
PageError ==
  /\ pc = "images"
  /\ ReturnPage(<<>>)
  /\ page_result' = "failed"
  /\ UNCHANGED <<session_vars, download_vars, gallery_categories, category_seed,
                 visited_in_category, pages_in_category, visited_urls,
                 nav_count, img_idx, metadata_files, save_result>>
  /\ overlay_open' = FALSE

\* the anchors a page can carry: a numbered anchor to any page of the
\* scope, and an anchor with a non-numeric text to the last numbered page
\* of galerie 1
Links ==
  {[url |-> u, numeric |-> TRUE] : u \in scope.pages}
  \cup {[url |-> u, numeric |-> FALSE] :
          u \in scope.pages \cap {Url(SITE, <<"1">>, NgAb, MaxNum)}}

Next ==
  \/ \E ts \in scope.timestamped : StartSession(ts)
  \/ \E found \in BOOLEAN : DiscoverGallery(found)
  \/ \E links \in SeqsUpTo(scope.pages \cap SeedUrls, scope.cats), ok \in BOOLEAN,
        n \in 1..scope.cats, nav_ok \in BOOLEAN :
        ExtractCategories(links, ok, n, nav_ok)
  \/ \E so \in scope.save : NextCategory(so)
  \/ \E nav_ok \in BOOLEAN : PopUrl(nav_ok)
  \/ \E so \in scope.save : SavePage(so)
  \/ CategoryExhausted
  \/ \E gallery \in BOOLEAN, overlay \in {"ok", "timeout"},
        abs_src \in scope.previews, fullres_src \in scope.images \cup {NoImage} :
        LightboxImage(gallery, overlay, abs_src, fullres_src)
  \/ \E src \in scope.images \cup {NoImage}, desc \in scope.descs :
        MediaImage(src, desc)
  \/ \E links \in SeqsUpTo(Links, scope.links) : FinishPage(links)
  \/ PageError

Spec == Init /\ [][Next]_vars
SpecDownload == InitDownload /\ [][Next]_vars
SpecPersist == InitPersist /\ [][Next]_vars
SpecRerun == InitRerun /\ [][Next]_vars

\* ------------------------------------------------------ the batch renamer
MaxPasses == 2
MaxDeletes == 1
RenameImgs == 2

\* the decimal digits of a natural number
RECURSIVE Decimal(_)
Decimal(n) ==
  LET d == <<"0","1","2","3","4","5","6","7","8","9">>[(n % 10) + 1]
  IN  IF n < 10 THEN <<d>> ELSE Decimal(n \div 10) \o <<d>>

RECURSIVE CounterText(_)
CounterText(sfx) ==
  IF sfx = <<>> THEN <<>>
  ELSE <<"_">> \o Decimal(Head(sfx)) \o CounterText(Tail(sfx))

ExtText(ext) ==
  CASE ext = ".jpg" -> <<".","j","p","g">>
    [] ext = ".png" -> <<".","p","n","g">>
    [] OTHER        -> <<>>

ExtName(t) ==
  CASE t = <<".","j","p","g">> -> ".jpg"
    [] t = <<".","p","n","g">> -> ".png"
    [] OTHER                   -> ""

\* a file name as the text the records hold: the base name, the counters the
\* downloader appended, the extension
NameText(filename) ==
  filename.stem \o CounterText(filename.sfx) \o ExtText(filename.ext)

\* rename_files.create_new_filename
create_new_filename(title, current_filename) ==
  LET cleaned_title == clean_title_for_filename(title)
      last_digits   == extract_last_three_digits(current_filename)
      ext           == splitext(current_filename)[2]
  IN  FileName(cleaned_title \o <<"_">> \o last_digits, <<>>,
               IF ext = <<>> THEN ".jpg" ELSE ExtName(ext))

CONFLICT == <<"_","c","o","n","f","l","i","c","t","_">>

\* f"{name}_conflict_{counter}{ext}"
WithConflict(new_filename, counter) ==
  FileName(new_filename.stem \o CONFLICT \o Decimal(counter), <<>>, new_filename.ext)

\* the conflict loop left out: the computed path as it is (fault for C12)
FinalNewPath_computed(files, current_path, new_dir, new_filename, counter) ==
  [current_path EXCEPT !.folder = new_dir, !.name = new_filename]

\* the conflict loop of the renamer: the computed path while it is free or
\* the item's own, else the first free one of _conflict_1, _conflict_2, ...
RECURSIVE FinalNewPath(_, _, _, _, _)
FinalNewPath(files, current_path, new_dir, new_filename, counter) ==
  LET name == IF counter = 0 THEN new_filename ELSE WithConflict(new_filename, counter)
      path == [current_path EXCEPT !.folder = new_dir, !.name = name]
  IN  IF exists(files, path) /\ path # current_path
      THEN FinalNewPath(files, current_path, new_dir, new_filename, counter + 1)
      ELSE path

\* shutil.move
Move(files, from, to) ==
  {f \in files : PathOf(f) # from}
    \cup {[f EXCEPT !.folder = to.folder, !.name = to.name] :
            f \in {g \in files : PathOf(g) = from}}

\* what one turn of the loop over the items computes
Item(metadata, i, files) ==
  LET item             == metadata[i]
      current_filename == item.filename
      current_path     == item.local_path
      new_filename     == create_new_filename(item.title, NameText(current_filename))
      new_category     == clean_category(item.category)
      new_dir          == IF item.category # new_category /\ current_path.folder # <<>>
                          THEN new_category ELSE current_path.folder
  IN  [current_path |-> current_path,
       new_category |-> new_category,
       new_dir      |-> new_dir,
       new_filename |-> new_filename,
       missing      |-> ~exists(files, current_path),
       unchanged    |-> /\ NameText(current_filename) = NameText(new_filename)
                        /\ item.category = new_category,
       final_new_path |-> FinalNewPath(files, current_path, new_dir, new_filename, 0)]

\* every record names a file that exists, and no two name the same path
Intact(metadata, files) ==
  /\ \A i \in 1..Len(metadata) : exists(files, metadata[i].local_path)
  /\ \A i, j \in 1..Len(metadata) :
       i # j => metadata[i].local_path # metadata[j].local_path

\* rename_files_in_metadata is called for an existing metadata file: the
\* metadata is loaded; with no records the call returns at once
StartRename(metadata_file, dry_run) ==
  /\ pc = "idle"
  /\ renamer.passes < scope.passes
  /\ metadata_files[metadata_file].state # "absent"
  /\ LET metadata == load_metadata(metadata_files[metadata_file])
     IN  /\ renamer' = [metadata_file |-> metadata_file, dry_run |-> dry_run,
                        metadata |-> metadata, i |-> 1, renamed_count |-> 0,
                        error_count |-> 0, passes |-> renamer.passes + 1,
                        outcome |-> "none", moved_to |-> NoPath,
                        intact |-> Intact(metadata, disk),
                        deleted |-> renamer.deleted]
         /\ pc' = IF metadata = <<>> THEN "idle" ELSE "rename"
  /\ UNCHANGED <<variant, run, run_dir, scope, text, download_vars, category_vars,
                 page_vars, metadata_files, page_result, save_result>>

\* an item that is an error and stays as it is (fault for C13: the batch
\* stops at the item)
ItemFailed_stops ==
  renamer' = [renamer EXCEPT !.i = Len(renamer.metadata) + 1,
                             !.error_count = @ + 1,
                             !.outcome = "error", !.moved_to = NoPath]

\* an item whose file is missing or whose processing raised: counted, left
\* as it is, and the loop goes on
ItemFailed ==
  renamer' = [renamer EXCEPT !.i = @ + 1, !.error_count = @ + 1,
                             !.outcome = "error", !.moved_to = NoPath]

ItemPassed(outcome) ==
  renamer' = [renamer EXCEPT !.i = @ + 1, !.outcome = outcome, !.moved_to = NoPath]

\* a turn of the loop that also acts when dry_run is set (fault for C11)
LiveTurn_always(dry_run) == TRUE

\* whether a turn of the loop acts on the files and the records
LiveTurn(dry_run) == ~dry_run

\* the turn that also stores the cleaned title in the record (fault for C37)
RenameItem_retitles(mkdir_ok, move) ==
  /\ pc = "rename"
  /\ renamer.i <= Len(renamer.metadata)
  /\ LET it == Item(renamer.metadata, renamer.i, disk)
         made == IF it.new_dir = <<>> THEN {}
                 ELSE {Dir(renamer.metadata_file, it.new_dir)}
     IN  IF it.missing
         THEN ItemFailed /\ UNCHANGED <<disk, dirs>>
         ELSE IF it.unchanged
         THEN ItemPassed("unchanged") /\ UNCHANGED <<disk, dirs>>
         ELSE IF ~LiveTurn(renamer.dry_run)
         THEN ItemPassed("dry_run") /\ UNCHANGED <<disk, dirs>>
         ELSE IF ~mkdir_ok
         THEN ItemFailed /\ UNCHANGED <<disk, dirs>>
         ELSE IF it.final_new_path # it.current_path /\ move # "ok"
         THEN ItemFailed /\ dirs' = dirs \cup made /\ UNCHANGED disk
         ELSE /\ disk' = IF it.final_new_path # it.current_path
                         THEN Move(disk, it.current_path, it.final_new_path)
                         ELSE disk
              /\ dirs' = dirs \cup made
              /\ renamer' = [renamer EXCEPT
                    !.metadata[renamer.i].filename = it.final_new_path.name,
                    !.metadata[renamer.i].local_path = it.final_new_path,
                    !.metadata[renamer.i].category = it.new_category,
                    !.metadata[renamer.i].title =
                       clean_title_for_filename(renamer.metadata[renamer.i].title),
                    !.renamed_count = @ + 1,
                    !.i = @ + 1,
                    !.outcome = "renamed",
                    !.moved_to = IF it.final_new_path # it.current_path
                                 THEN it.final_new_path ELSE NoPath]
  /\ pc' = "rename"
  /\ UNCHANGED <<variant, run, run_dir, scope, text, downloaded_images,
                 downloaded_urls, categories_found, last, offered, category_vars,
                 page_vars, metadata_files, page_result, save_result>>

\* one turn of the loop over the items
RenameItem(mkdir_ok, move) ==
  /\ pc = "rename"
  /\ renamer.i <= Len(renamer.metadata)
  /\ LET it == Item(renamer.metadata, renamer.i, disk)
         made == IF it.new_dir = <<>> THEN {}
                 ELSE {Dir(renamer.metadata_file, it.new_dir)}
     IN  IF it.missing
         THEN ItemFailed /\ UNCHANGED <<disk, dirs>>
         ELSE IF it.unchanged
         THEN ItemPassed("unchanged") /\ UNCHANGED <<disk, dirs>>
         ELSE IF ~LiveTurn(renamer.dry_run)
         THEN ItemPassed("dry_run") /\ UNCHANGED <<disk, dirs>>
         ELSE IF ~mkdir_ok
         THEN ItemFailed /\ UNCHANGED <<disk, dirs>>
         ELSE IF it.final_new_path # it.current_path /\ move # "ok"
         THEN ItemFailed /\ dirs' = dirs \cup made /\ UNCHANGED disk
         ELSE /\ disk' = IF it.final_new_path # it.current_path
                         THEN Move(disk, it.current_path, it.final_new_path)
                         ELSE disk
              /\ dirs' = dirs \cup made
              /\ renamer' = [renamer EXCEPT
                    !.metadata[renamer.i].filename = it.final_new_path.name,
                    !.metadata[renamer.i].local_path = it.final_new_path,
                    !.metadata[renamer.i].category = it.new_category,
                    !.renamed_count = @ + 1,
                    !.i = @ + 1,
                    !.outcome = "renamed",
                    !.moved_to = IF it.final_new_path # it.current_path
                                 THEN it.final_new_path ELSE NoPath]
  /\ pc' = "rename"
  /\ UNCHANGED <<variant, run, run_dir, scope, text, downloaded_images,
                 downloaded_urls, categories_found, last, offered, category_vars,
                 page_vars, metadata_files, page_result, save_result>>

\* the pass without its cleanup (fault for C40)
CleanEmptyDirs_none(metadata_file, files, folders) == folders

\* os.walk bottom-up over the images directory of the metadata file: the
\* empty category folders are removed
CleanEmptyDirs(metadata_file, files, folders) ==
  {d \in folders : d.dir = metadata_file =>
                     \E f \in files : f.dir = d.dir /\ f.folder = d.folder}

\* after the loop: the metadata is saved when something was renamed, the
\* empty folders are removed, the tallies are returned
FinishRename(outcome) ==
  /\ pc = "rename"
  /\ renamer.i > Len(renamer.metadata)
  /\ IF LiveTurn(renamer.dry_run) /\ renamer.renamed_count > 0
     THEN metadata_files' = [metadata_files EXCEPT ![renamer.metadata_file] =
                               save_metadata(@, renamer.metadata, outcome)]
     ELSE UNCHANGED metadata_files
  /\ dirs' = IF LiveTurn(renamer.dry_run)
             THEN CleanEmptyDirs(renamer.metadata_file, disk, dirs) ELSE dirs
  /\ renamer' = [renamer EXCEPT !.outcome = "returned", !.moved_to = NoPath]
  /\ pc' = "idle"
  /\ UNCHANGED <<variant, run, run_dir, scope, text, downloaded_images,
                 downloaded_urls, categories_found, disk, last, offered,
                 category_vars, page_vars, page_result, save_result>>

\* a file the records name is deleted from outside the program
DeleteOutside ==
  /\ pc = "idle"
  /\ renamer.deleted < scope.deletes
  /\ \E d \in RunDirs : \E i \in 1..Len(load_metadata(metadata_files[d])) :
       LET path == load_metadata(metadata_files[d])[i].local_path
       IN  /\ exists(disk, path)
           /\ disk' = {f \in disk : PathOf(f) # path}
  /\ renamer' = [renamer EXCEPT !.deleted = @ + 1]
  /\ UNCHANGED <<variant, run, run_dir, scope, text, downloaded_images,
                 downloaded_urls, categories_found, dirs, last, offered,
                 category_vars, page_vars, metadata_files, pc, page_result,
                 save_result>>

\* the renamer over the metadata files the crawl sessions left
Renames ==
  \/ \E d \in RunDirs : \E dry_run \in scope.dry_run : StartRename(d, dry_run)
  \/ \E mkdir_ok \in scope.mkdir : \E move \in scope.move : RenameItem(mkdir_ok, move)
  \/ \E outcome \in scope.save : FinishRename(outcome)

\* the rename scope: one session over a one-page category with two images
\* whose new names collide, then passes of the renamer
RenameScope ==
  [pages |-> {GalleryUrl, Url(SITE, <<"1">>, NgAb, 1)}, links |-> 1, cats |-> 1,
   images |-> {Img(SITE, 1, <<"a">>, <<>>, ".jpg"), Img(SITE, 1, <<"c">>, <<>>, "")},
   imgs |-> RenameImgs, runs |-> 1, timestamped |-> {TRUE},
   fetch |-> {"200"}, sizes |-> {1}, mkdir |-> BOOLEAN,
   write |-> {"ok"}, descs |-> {<<>>}, save |-> {"ok", "open_failed"},
   passes |-> MaxPasses, dry_run |-> BOOLEAN, move |-> {"ok", "failed"},
   deletes |-> 0, previews |-> {NoImage}]

\* the same with two sessions that share the run directory, and files that
\* disappear between the operations
OutsideScope ==
  [pages |-> {GalleryUrl, Url(SITE, <<"1">>, NgAb, 1)}, links |-> 1, cats |-> 1,
   images |-> {Img(SITE, 1, <<"a">>, <<>>, ".jpg"), Img(SITE, 1, <<"c">>, <<>>, "")},
   imgs |-> 1, runs |-> 2, timestamped |-> {FALSE},
   fetch |-> {"200"}, sizes |-> {1}, mkdir |-> {TRUE},
   write |-> {"ok"}, descs |-> {<<>>}, save |-> {"ok"},
   passes |-> MaxPasses, dry_run |-> {FALSE}, move |-> {"ok"},
   deletes |-> MaxDeletes, previews |-> {NoImage}]

\* the live scope: the same session, then live passes only, in which no
\* folder creation, no move and no save fails
LiveScope ==
  [pages |-> {GalleryUrl, Url(SITE, <<"1">>, NgAb, 1)}, links |-> 1, cats |-> 1,
   images |-> {Img(SITE, 1, <<"a">>, <<>>, ".jpg"), Img(SITE, 1, <<"c">>, <<>>, "")},
   imgs |-> RenameImgs, runs |-> 1, timestamped |-> {TRUE},
   fetch |-> {"200"}, sizes |-> {1}, mkdir |-> {TRUE},
   write |-> {"ok"}, descs |-> {<<>>}, save |-> {"ok"},
   passes |-> MaxPasses, dry_run |-> {FALSE}, move |-> {"ok"},
   deletes |-> 0, previews |-> {NoImage}]

InitRename == InitIn(RenameScope)
InitOutside == InitIn(OutsideScope)
InitLive == InitIn(LiveScope)

NextRename == Next \/ Renames
NextOutside == Next \/ Renames \/ DeleteOutside

SpecRename == InitRename /\ [][NextRename]_vars
SpecOutside == InitOutside /\ [][NextOutside]_vars
SpecLive == InitLive /\ [][NextRename]_vars

\* ----------------------------------------- the text functions on their own
MaxText == 3
MaxCalls == 2
TextAlphabet == {"A", "b", "é", "_", " ", "-", "&", "1", "2", "."}

\* the names the documentation of the renamer works through
FAUVES == <<"F","a","u","v","e","s"," ","&"," ","A","n","i","m","a","u","x">>
PHOTO001 == <<"p","h","o","t","o","0","0","1",".","j","p","g">>
IMG == <<"i","m","g",".","j","p","g">>
A1B2 == <<"a","1","b","2",".","p","n","g">>
TextExamples == {FAUVES, PHOTO001, IMG, A1B2}

TextInputs == SeqsUpTo(TextAlphabet, MaxText) \cup TextExamples

InitText ==
  /\ NoSession(CrawlScope)
  /\ variant = "playwright"
  /\ \E x \in TextInputs : text = [NoText EXCEPT !.input = x]

text_only == <<variant, run, run_dir, pc, visited_urls, downloaded_images,
               downloaded_urls, categories_found, gallery_categories,
               category_seed, category_queue, visited_in_category,
               pages_in_category, current_url, caller, img_idx, overlay_open,
               disk,
               metadata_files, last, offered, page_result, save_result,
               nav_count, scope, dirs, renamer>>

\* clean_category applied to the raw name, then to its own result
CleanCategory ==
  /\ text.fn \in {"none", "clean_category"}
  /\ text.calls < MaxCalls
  /\ LET category == IF text.fn = "none" THEN text.input ELSE text.res
     IN  text' = [text EXCEPT !.fn = "clean_category", !.arg = category,
                              !.res = clean_category(category),
                              !.calls = @ + 1]
  /\ UNCHANGED text_only

\* extract_last_three_digits applied to a file name
ExtractLastThreeDigits ==
  /\ text.fn = "none"
  /\ text' = [text EXCEPT !.fn = "extract_last_three_digits", !.arg = text.input,
                           !.res = extract_last_three_digits(text.input),
                           !.calls = 1]
  /\ UNCHANGED text_only

NextText == CleanCategory \/ ExtractLastThreeDigits

SpecText == InitText /\ [][NextText]_vars

\* ------------------------------------------------- the lightbox caption
MaxCaption == 5
CaptionAlphabet == {"4", "0", "x", " ", "c", "m", "."}

\* the captions the documentation works through, and captions with an
\* upper-case X, a decimal number and a unit glued to a word
CAPTION_DEFECT == <<"4","0"," ","x","5"," ","0"," ","c","m">>
CAPTION_GAP == <<"4","0"," ","x"," ","5"," ","0">>
CAPTION_UPPER == <<"4","0"," ","X","5"," ","0">>
CAPTION_OIL == <<"o","i","l"," ","4","0","x","5",".","5","c","m","s">>
CaptionExamples == {CAPTION_DEFECT, CAPTION_GAP, CAPTION_UPPER, CAPTION_OIL}

CaptionInputs == SeqsUpTo(CaptionAlphabet, MaxCaption) \cup CaptionExamples

\* the length of the longest run of characters of cls that starts at s[i]
RECURSIVE RunLen(_, _, _)
RunLen(s, i, cls) ==
  IF i <= Len(s) /\ s[i] \in cls THEN 1 + RunLen(s, i + 1, cls) ELSE 0

\* re.sub(r'x(\d+)\s+(\d+)', r'x\1\2', s) from s[i] on and, with gap,
\* re.sub(r'x\s+(\d+)\s+(\d+)', r'x\1\2', s): one pass from left to right
RECURSIVE JoinSplitNumber(_, _, _)
JoinSplitNumber(s, i, gap) ==
  IF i > Len(s) THEN <<>>
  ELSE LET g  == IF gap THEN RunLen(s, i + 1, {" "}) ELSE 0
           a  == i + 1 + g
           n1 == RunLen(s, a, Digits)
           w  == RunLen(s, a + n1, {" "})
           b  == a + n1 + w
           n2 == RunLen(s, b, Digits)
       IN  IF s[i] = "x" /\ (gap => g > 0) /\ n1 > 0 /\ w > 0 /\ n2 > 0
           THEN <<"x">> \o SubSeq(s, a, a + n1 - 1) \o SubSeq(s, b, b + n2 - 1)
                \o JoinSplitNumber(s, b + n2, gap)
           ELSE <<s[i]>> \o JoinSplitNumber(s, i + 1, gap)

\* a caption parser that leaves the split digits as they are (fault for C21)
fix_dimensions_spacing_none(t) == t

\* crawler.py fix_dimensions_spacing
fix_dimensions_spacing(t) ==
  IF t = <<>> THEN <<>>
  ELSE JoinSplitNumber(JoinSplitNumber(t, 1, FALSE), 1, TRUE)

\* \w of the regular expression
IsWordChar(c) == c \in LowerLetters \cup Digits \cup {"_"} \/ LowerChar(c) # c

\* \b before s[j]; j = Len(s) + 1 is the end of the text
WordBoundary(s, j) ==
  LET before == j > 1 /\ IsWordChar(s[j - 1])
      after  == j <= Len(s) /\ IsWordChar(s[j])
  IN  before # after

\* \d+(?:\.\d+)? at s[i]: the lengths of the whole part and of the fraction
NumberAt(s, i) ==
  LET n == RunLen(s, i, Digits)
      f == IF n > 0 /\ i + n <= Len(s) /\ s[i + n] = "."
           THEN RunLen(s, i + n + 1, Digits) ELSE 0
  IN  [whole |-> n, frac |-> IF f > 0 THEN f + 1 ELSE 0]

\* (?:\s*cm)? at s[p], case ignored: the index after it
UnitAt(s, p) ==
  LET q == p + RunLen(s, p, {" "})
  IN  IF q + 1 <= Len(s) /\ LowerChar(s[q]) = "c" /\ LowerChar(s[q + 1]) = "m"
      THEN q + 2 ELSE p

\* the end of a match of the dimension pattern whose second number ends
\* before s[p4] and, with its fraction, before s[p5]: the unit and then the
\* fraction are given up when no word boundary follows them; 0 when no end
\* is at a word boundary
DimensionEnd(s, p4, p5) ==
  IF WordBoundary(s, UnitAt(s, p5)) THEN UnitAt(s, p5)
  ELSE IF WordBoundary(s, p5) THEN p5
  ELSE IF WordBoundary(s, UnitAt(s, p4)) THEN UnitAt(s, p4)
  ELSE IF WordBoundary(s, p4) THEN p4
  ELSE 0

\* the second number of the pattern at s[b], after the x and its spaces
SecondNumber(s, b, n2) ==
  IF n2.whole > 0 THEN DimensionEnd(s, b + n2.whole, b + n2.whole + n2.frac)
  ELSE 0

\* the x of the pattern at s[x], case ignored, after the first number
TimesSign(s, x) ==
  IF x <= Len(s) /\ LowerChar(s[x]) = "x"
  THEN SecondNumber(s, x + 1 + RunLen(s, x + 1, {" "}),
                    NumberAt(s, x + 1 + RunLen(s, x + 1, {" "})))
  ELSE 0

\* the first number of the pattern, of length n, at s[i]
FirstNumber(s, i, n) ==
  IF n > 0 THEN TimesSign(s, i + n + RunLen(s, i + n, {" "})) ELSE 0

\* the dimension pattern \b(\d+(?:\.\d+)?\s*x\s*\d+(?:\.\d+)?(?:\s*cm)?)\b
\* tried at s[i]: the index after the match the backtracking search finds
\* first, 0 when there is none
DimensionAt(s, i) ==
  IF WordBoundary(s, i) /\ s[i] \in Digits
  THEN FirstNumber(s, i, NumberAt(s, i).whole + NumberAt(s, i).frac)
  ELSE 0

\* the leftmost match from s[i] on
RECURSIVE DimensionFrom(_, _)
DimensionFrom(s, i) ==
  IF i > Len(s) THEN <<>>
  ELSE IF DimensionAt(s, i) # 0 THEN SubSeq(s, i, DimensionAt(s, i) - 1)
  ELSE DimensionFrom(s, i + 1)

\* re.search(pattern, info, re.IGNORECASE).group(1), <<>> without a match
DimensionMatch(info) == DimensionFrom(info, 1)

\* s.replace(sub, ''): every occurrence from left to right
RECURSIVE Remove(_, _)
Remove(s, sub) ==
  IF sub = <<>> \/ Len(s) < Len(sub) THEN s
  ELSE IF SubSeq(s, 1, Len(sub)) = sub
       THEN Remove(SubSeq(s, Len(sub) + 1, Len(s)), sub)
       ELSE <<Head(s)>> \o Remove(Tail(s), sub)

\* crawler.py 388-410: painting_type and dimensions from the text after the
\* <br> of .mfp-title
parse_caption(raw_info) ==
  LET info == fix_dimensions_spacing(clean_text_field(raw_info))
      raw_dimensions == DimensionMatch(info)
  IN  IF raw_dimensions # <<>>
      THEN [info |-> info,
            dimensions |-> clean_text_field(fix_dimensions_spacing(raw_dimensions)),
            painting_type |-> clean_text_field(Strip(Remove(info, raw_dimensions)))]
      ELSE [info |-> info, dimensions |-> <<>>,
            painting_type |-> clean_text_field(info)]

InitCaption ==
  /\ NoSession(CrawlScope)
  /\ variant = "playwright"
  /\ \E x \in CaptionInputs : text = [NoText EXCEPT !.input = x]

\* the caption of the open lightbox is parsed
ParseCaption ==
  /\ text.fn = "none"
  /\ text' = [text EXCEPT !.fn = "parse_caption", !.arg = text.input,
                           !.res = parse_caption(text.input), !.calls = 1]
  /\ UNCHANGED text_only

SpecCaption == InitCaption /\ [][ParseCaption]_vars

\* ------------------------------------------ the category list on its own
MaxCategoryLinks == 3

\* the anchors of a gallery page: the page itself, two links to galerie 1
\* that differ in ng, a link to galerie 1 without ng, galerie 2, galerie 3
CategoryLinks ==
  {GalleryUrl, Url(SITE, <<"1">>, NgAb, 1), Url(SITE, <<"1">>, NgCd, 1),
   Url(SITE, <<"1">>, <<>>, 1), Url(SITE, <<"2">>, NgAbS, 1),
   Url(SITE, <<"3">>, NgCd, 1)}

\* advanced_crawler.py 509-534: a category for every link with galerie= and ng=
RECURSIVE Categories(_)
Categories(links) ==
  IF links = <<>> THEN <<>>
  ELSE (IF Head(links).galerie # <<>> /\ Head(links).ng # <<>>
        THEN <<Category(Head(links))>> ELSE <<>>) \o Categories(Tail(links))

\* advanced_crawler.py 536-542: unique_categories
RECURSIVE RemoveDuplicates(_, _)
RemoveDuplicates(categories, seen_ids) ==
  IF categories = <<>> THEN <<>>
  ELSE IF Head(categories).value \notin seen_ids
       THEN <<Head(categories)>>
            \o RemoveDuplicates(Tail(categories), seen_ids \cup {Head(categories).value})
       ELSE RemoveDuplicates(Tail(categories), seen_ids)

\* extract_gallery_categories_simple of the session's crawler on the links
\* of the gallery page
extract_gallery_categories_simple(links) ==
  IF variant = "playwright" THEN UniqueCategories(links, {})
  ELSE RemoveDuplicates(Categories(links), {})

InitCategories ==
  /\ NoSession(CrawlScope)
  /\ \E links \in SeqsUpTo(CategoryLinks, MaxCategoryLinks) :
       text = [NoText EXCEPT !.input = links]

\* the category list is built from the links of the gallery page
ExtractGalleryCategories ==
  /\ text.fn = "none"
  /\ text' = [text EXCEPT !.fn = "extract_gallery_categories_simple",
                           !.arg = text.input,
                           !.res = extract_gallery_categories_simple(text.input),
                           !.calls = 1]
  /\ UNCHANGED text_only

SpecCategories == InitCategories /\ [][ExtractGalleryCategories]_vars

\* ------------------------------------------------- the site as a graph
MaxAnchors == 1

\* the reach scope: one session over the first pages of galerie 1 and
\* galerie 2 and a page on another host; the candidates carry no image URL
ReachScope ==
  [pages |-> {GalleryUrl, Url(SITE, <<"1">>, NgAb, 1), Url(SITE, <<"2">>, NgAbS, 1),
              Url(EXT, <<"1">>, NgAb, 2)},
   links |-> MaxAnchors, cats |-> 2, images |-> {},
   imgs |-> 1, runs |-> 1, timestamped |-> {TRUE},
   fetch |-> {"200"}, sizes |-> {1}, mkdir |-> {TRUE},
   write |-> {"ok"}, descs |-> {<<>>}, save |-> {"ok"}] @@ NoRenames

\* the sites of the reach scope: every page of the allowed domain carries a
\* fixed list of numbered anchors to pages of the scope, the gallery page
\* carries none
Sites ==
  LET loadable == {u \in ReachScope.pages : is_allowed_domain(u)}
      anchors  == {[url |-> u, numeric |-> TRUE] : u \in ReachScope.pages \ {GalleryUrl}}
  IN  {site \in [loadable -> SeqsUpTo(anchors, MaxAnchors)] : site[GalleryUrl] = <<>>}

InitReach == \E site \in Sites : InitIn([site |-> site] @@ ReachScope)

\* a session in which no navigation and no page fails; every page shows the
\* anchors the site gives it
NextReach ==
  \/ \E ts \in scope.timestamped : StartSession(ts)
  \/ \E found \in BOOLEAN : DiscoverGallery(found)
  \/ \E links \in SeqsUpTo(scope.pages \cap SeedUrls, scope.cats), ok \in BOOLEAN,
        n \in 1..scope.cats :
        ExtractCategories(links, ok, n, TRUE)
  \/ \E so \in scope.save : NextCategory(so)
  \/ PopUrl(TRUE)
  \/ \E so \in scope.save : SavePage(so)
  \/ CategoryExhausted
  \/ \E gallery \in BOOLEAN : LightboxImage(gallery, "ok", NoImage, NoImage)
  \/ MediaImage(NoImage, <<>>)
  \/ FinishPage(scope.site[current_url])

SpecReach == InitReach /\ [][NextReach]_vars

\* ------------------------------------------------------------- interrupts
\* the interrupt scope: one session over a one-page category
InterruptScope ==
  [pages |-> {GalleryUrl, Url(SITE, <<"1">>, NgAb, 1)}, links |-> 1, cats |-> 1,
   images |-> {Img(SITE, 1, <<"a">>, <<>>, ".jpg")},
   imgs |-> RerunImgs, runs |-> 1, timestamped |-> {TRUE},
   fetch |-> {"200", "404"}, sizes |-> {1}, mkdir |-> {TRUE},
   write |-> {"ok"}, descs |-> {<<>>}, save |-> {"ok"}] @@ NoRenames

InitInterrupt == InitIn(InterruptScope)

\* Ctrl-C while a session runs: the pending await raises, __aexit__ closes
\* the browser and the HTTP session, main prints and exits. Nothing on this
\* path calls save_metadata; an interrupt that arrives while save_metadata
\* writes is no Exception, so the file stays as far as it was written
Interrupt(during_write) ==
  /\ pc \notin {"idle", "rename"}
  /\ metadata_files' =
       IF pc = "save" /\ during_write
       THEN [metadata_files EXCEPT ![run_dir] = Corrupt]
       ELSE metadata_files
  /\ page_result' = "interrupted"
  /\ pc' = "idle"
  /\ UNCHANGED <<session_vars, download_vars, category_vars, page_vars, save_result>>

NextInterrupt == Next \/ \E during_write \in BOOLEAN : Interrupt(during_write)

SpecInterrupt == InitInterrupt /\ [][NextInterrupt]_vars

\* ------------------------------------------------------- the debug crawler
\* debug_crawler.py: the Playwright crawler narrowed to the categories whose
\* name holds target_category; the pages of this section carry no
\* .slideshow-container, and an exception raised after the download (by the
\* click that closes the overlay) is left out
DebugImgs == 2

\* target_category as given to the constructor: none, one that the name
\* "Ab" holds, one that it does not hold
TargetCategories == {NONE, <<"a">>, <<"c">>}

\* Python's "sub in s" on text
IsInfix(sub, s) ==
  \E i \in 0..(Len(s) - Len(sub)) : SubSeq(s, i + 1, i + Len(sub)) = sub

\* the thumbnail the page shows and the image its overlay shows
Thumbnail == Img(SITE, 1, <<"c">>, <<>>, ".jpg")
FullRes   == Img(SITE, 1, <<"a">>, <<>>, ".jpg")

DebugScope ==
  [crawler |-> "debug",
   pages |-> {GalleryUrl, Url(SITE, <<"1">>, NgAb, 1)}, links |-> 1, cats |-> 1,
   images |-> {FullRes}, imgs |-> DebugImgs, runs |-> 1, timestamped |-> {TRUE},
   fetch |-> {"200", "404"}, sizes |-> {1}, mkdir |-> {TRUE},
   write |-> {"ok"}, descs |-> {<<>>}, save |-> {"ok"},
   passes |-> 0, dry_run |-> {}, move |-> {}, deletes |-> 0,
   previews |-> {Thumbnail, FullRes}]

InitDebug == \E target_category \in TargetCategories :
               InitIn([target |-> target_category] @@ DebugScope)

\* debug_crawler.py extract_gallery_categories_simple: the first link of
\* every galerie id among the links whose name holds the target
RECURSIVE TargetCategoriesOf(_, _, _)
TargetCategoriesOf(links, seen_ids, target_category) ==
  IF links = <<>> THEN <<>>
  ELSE LET u == Head(links)
           category_name == Strip(unquote_plus(u.ng))
       IN  IF u.galerie # <<>> /\ u.ng # <<>> /\ u.galerie \notin seen_ids
              /\ (target_category = NONE
                  \/ IsInfix(Lower(target_category), Lower(category_name)))
           THEN <<Category(u)>>
                \o TargetCategoriesOf(Tail(links), seen_ids \cup {u.galerie},
                                      target_category)
           ELSE TargetCategoriesOf(Tail(links), seen_ids, target_category)

\* debug_single_category step 2: the matching categories; with none the
\* session returns at once
DebugCategories(links, ok) ==
  /\ pc = "extract"
  /\ variant = "debug"
  /\ LET categories == IF ok THEN TargetCategoriesOf(links, {}, scope.target)
                       ELSE <<>>
     IN  /\ gallery_categories' = categories
         /\ IF categories # <<>>
            THEN pc' = "next_category" /\ UNCHANGED <<current_url, caller>>
            ELSE EndSession
  /\ UNCHANGED <<session_vars, download_vars, category_seed, category_queue,
                 visited_in_category, pages_in_category, visited_urls,
                 nav_count, img_idx, overlay_open, metadata_files, page_result,
                 save_result>>

\* f"preview_{base_name}{ext}"
PreviewName(filename) ==
  FileName(<<"preview_">> \o filename.stem, filename.sfx, filename.ext)

\* debug_crawler.py _download_fallback_image after a 200 answer: the
\* element's own image is stored under a preview_ name, without a title
StorePreview(image_url, source_page, final_category, size, mkdir_ok, write) ==
  LET folder   == create_directory_structure_custom(final_category, mkdir_ok)
      filename == ResolveConflict(disk, run_dir, folder,
                                  PreviewName(basename(image_url)), 0)
      path     == Path(run_dir, folder, filename)
      file     == [dir |-> run_dir, folder |-> folder, name |-> filename,
                   url |-> image_url, complete |-> write = "ok"]
      record   == [filename |-> filename, original_url |-> image_url,
                   local_path |-> path, file_size |-> size,
                   source_page |-> source_page, title |-> <<>>,
                   category |-> final_category, crawl_run |-> run_dir]
      made     == IF folder = <<>> THEN {} ELSE {Dir(run_dir, folder)}
  IN  IF write = "open_failed"
      THEN [record |-> NoRecord, files |-> disk, dirs |-> made,
            attempt |-> Attempt(image_url, TRUE, NoPath, FALSE, "failed")]
      ELSE [record |-> IF write = "ok" THEN record ELSE NoRecord,
            files  |-> {f \in disk : PathOf(f) # path} \cup {file},
            dirs   |-> made,
            attempt |-> Attempt(image_url, TRUE, path, exists(disk, path),
                                IF write = "ok" THEN "record" ELSE "failed")]

\* debug_crawler.py 635: the URL tested against downloaded_urls is the
\* element's own absolute src
DebugTested(abs_src, fullres_src) == abs_src

\* debug_crawler.py 646-742: the GET of image_url without a further
\* duplicate check, the store and the bookkeeping, which marks image_url
DebugDownload(image_url, preview) ==
  /\ offered' = offered \cup {image_url}
  /\ \E fetch \in scope.fetch :
       IF fetch # "200"
       THEN Bookkeeping(FetchFailed(image_url))
       ELSE \E size \in scope.sizes, mkdir_ok \in scope.mkdir, write \in scope.write :
              Bookkeeping(IF preview
                          THEN StorePreview(image_url, current_url,
                                            LightboxCategory(current_url),
                                            size, mkdir_ok, write)
                          ELSE Store(image_url, current_url,
                                     LightboxCategory(current_url),
                                     size, mkdir_ok, write))

\* debug_crawler.py crawl_page_thoroughly, one img element of the standard
\* extraction path: the gallery filter, the duplicate check, the overlay
\* and the download of the high-resolution image, or of the element's own
\* image when the overlay raised
DebugImage(gallery, overlay, abs_src, fullres_src) ==
  /\ pc = "images"
  /\ variant = "debug"
  /\ img_idx < scope.imgs
  /\ img_idx' = img_idx + 1
  /\ IF ~gallery THEN NoDownload
     ELSE IF DebugTested(abs_src, fullres_src) \in downloaded_urls
     THEN /\ last' = Duplicate(DebugTested(abs_src, fullres_src)).attempt
          /\ UNCHANGED <<downloaded_images, downloaded_urls, categories_found,
                         disk, dirs, offered>>
     ELSE IF overlay # "ok" THEN DebugDownload(abs_src, TRUE)
     ELSE IF fullres_src = NoImage THEN NoDownload
     ELSE DebugDownload(fullres_src, FALSE)
  /\ UNCHANGED <<session_vars, category_vars, pc, visited_urls, nav_count,
                 current_url, caller, overlay_open, metadata_files,
                 page_result, save_result>>

NextDebug ==
  \/ \E ts \in scope.timestamped : StartSession(ts)
  \/ \E found \in BOOLEAN : DiscoverGallery(found)
  \/ \E links \in SeqsUpTo(scope.pages \cap SeedUrls, scope.cats), ok \in BOOLEAN :
        DebugCategories(links, ok)
  \/ \E so \in scope.save : NextCategory(so)
  \/ \E nav_ok \in BOOLEAN : PopUrl(nav_ok)
  \/ \E so \in scope.save : SavePage(so)
  \/ CategoryExhausted
  \/ \E gallery \in BOOLEAN, overlay \in {"ok", "timeout"},
        abs_src \in scope.previews, fullres_src \in scope.images \cup {NoImage} :
        DebugImage(gallery, overlay, abs_src, fullres_src)
  \/ \E links \in SeqsUpTo(Links, scope.links) : FinishPage(links)
  \/ PageError

SpecDebug == InitDebug /\ [][NextDebug]_vars

\* ------------------------------------------------ the overlay on its page
\* the overlay scope: one session over a one-page category whose candidates
\* have a source of their own, with every way the click can end
OverlayImgs == 2

OverlayScope ==
  [pages |-> {GalleryUrl, Url(SITE, <<"1">>, NgAb, 1)}, links |-> 1, cats |-> 1,
   images |-> {Img(SITE, 1, <<"a">>, <<>>, ".jpg")},
   imgs |-> OverlayImgs, runs |-> 1, timestamped |-> {TRUE},
   fetch |-> {"200", "404"}, sizes |-> {1}, mkdir |-> {TRUE},
   write |-> {"ok"}, descs |-> {<<>>}, save |-> {"ok"},
   passes |-> 0, dry_run |-> {}, move |-> {}, deletes |-> 0,
   previews |-> {Img(SITE, 1, <<"c">>, <<>>, ".jpg")}]

InitOverlay == InitIn(OverlayScope)

NextOverlay ==
  \/ \E ts \in scope.timestamped : StartSession(ts)
  \/ \E found \in BOOLEAN : DiscoverGallery(found)
  \/ \E links \in SeqsUpTo(scope.pages \cap SeedUrls, scope.cats), ok \in BOOLEAN,
        n \in 1..scope.cats, nav_ok \in BOOLEAN :
        ExtractCategories(links, ok, n, nav_ok)
  \/ \E so \in scope.save : NextCategory(so)
  \/ \E nav_ok \in BOOLEAN : PopUrl(nav_ok)
  \/ \E so \in scope.save : SavePage(so)
  \/ CategoryExhausted
  \/ \E gallery \in BOOLEAN, overlay \in OverlayOutcomes,
        abs_src \in scope.previews, fullres_src \in scope.images \cup {NoImage} :
        LightboxImage(gallery, overlay, abs_src, fullres_src)
  \/ \E src \in scope.images \cup {NoImage}, desc \in scope.descs :
        MediaImage(src, desc)
  \/ \E links \in SeqsUpTo(Links, scope.links) : FinishPage(links)
  \/ PageError

SpecOverlay == InitOverlay /\ [][NextOverlay]_vars

\* ------------------------------------------------- the overlay fallback
\* the fallback scope: one session over a one-page category whose image
\* elements have a source of their own
FallbackScope ==
  [pages |-> {GalleryUrl, Url(SITE, <<"1">>, NgAb, 1)}, links |-> 1, cats |-> 1,
   images |-> {Img(SITE, 1, <<"a">>, <<>>, ".jpg")},
   imgs |-> PersistImgs, runs |-> 1, timestamped |-> {TRUE},
   fetch |-> {"200", "404"}, sizes |-> {1}, mkdir |-> {TRUE},
   write |-> {"ok"}, descs |-> {<<>>}, save |-> {"ok"},
   passes |-> 0, dry_run |-> {}, move |-> {}, deletes |-> 0,
   previews |-> {Img(SITE, 1, <<"c">>, <<>>, ".jpg")}]

InitFallback == InitIn(FallbackScope)

SpecFallback == InitFallback /\ [][Next]_vars

\* ------------------------------------------- the metadata file as JSON text
MaxRecords == 2
MaxString == 1
QUOTE == "\""
BACKSLASH == "\\"
NEWLINE == "\n"
JsonAlphabet == {"a", QUOTE, BACKSLASH}

\* the values of a record: text and whole numbers
JsonStr(chars) == [type |-> "str", chars |-> chars, n |-> 0]
JsonInt(n) == [type |-> "int", chars |-> <<>>, n |-> n]

\* records with a text field and a number field, as download_image and
\* _download_image_from_lightbox build them
JsonRecords ==
  {[title |-> JsonStr(t), file_size |-> JsonInt(n)] :
     t \in SeqsUpTo(JsonAlphabet, MaxString), n \in {0, 12}}

\* the non-empty collections
JsonCollections == UNION {[1..k -> JsonRecords] : k \in 1..MaxRecords}

KeyText(k) ==
  CASE k = "title" -> <<"t","i","t","l","e">>
    [] k = "file_size" -> <<"f","i","l","e","_","s","i","z","e">>

KeyName(t) ==
  CASE t = <<"t","i","t","l","e">> -> "title"
    [] t = <<"f","i","l","e","_","s","i","z","e">> -> "file_size"
    [] OTHER -> "unknown"

\* a string encoder that writes the characters as they are (fault for C18)
EncodeString_raw(chars) == <<QUOTE>> \o chars \o <<QUOTE>>

\* json.dumps of a str with ensure_ascii=False: quotes, backslashes and
\* newlines are escaped, everything else is written as it is
EncodeString(chars) ==
  LET Escape(c) == CASE c = QUOTE     -> <<BACKSLASH, QUOTE>>
                     [] c = BACKSLASH -> <<BACKSLASH, BACKSLASH>>
                     [] c = NEWLINE   -> <<BACKSLASH, "n">>
                     [] OTHER         -> <<c>>
      Body[i \in 0..Len(chars)] ==
        IF i = 0 THEN <<>> ELSE Body[i - 1] \o Escape(chars[i])
  IN  <<QUOTE>> \o Body[Len(chars)] \o <<QUOTE>>

EncodeValue(v) == IF v.type = "str" THEN EncodeString(v.chars) ELSE Decimal(v.n)

Spaces(n) == [i \in 1..n |-> " "]

\* json.dumps of a record with indent=2, inside the list: the keys in the
\* order in which the record was built
EncodeRecord(r) ==
  <<"{", NEWLINE>> \o Spaces(4)
    \o EncodeString(KeyText("title")) \o <<":", " ">> \o EncodeValue(r.title)
    \o <<",", NEWLINE>> \o Spaces(4)
    \o EncodeString(KeyText("file_size")) \o <<":", " ">> \o EncodeValue(r.file_size)
    \o <<NEWLINE>> \o Spaces(2) \o <<"}">>

\* json.dumps(metadata, indent=2, ensure_ascii=False)
json_dumps(metadata) ==
  LET Body[i \in 0..Len(metadata)] ==
        IF i = 0 THEN <<>>
        ELSE Body[i - 1] \o (IF i > 1 THEN <<",">> ELSE <<>>)
               \o <<NEWLINE>> \o Spaces(2) \o EncodeRecord(metadata[i])
  IN  IF metadata = <<>> THEN <<"[", "]">>
      ELSE <<"[">> \o Body[Len(metadata)] \o <<NEWLINE, "]">>

\* the result of a parsing step: the value read and the position after it
Parsed(v, p) == [ok |-> TRUE, value |-> v, pos |-> p]
ParseError == [ok |-> FALSE, value |-> JsonInt(0), pos |-> 0]

RECURSIVE SkipWs(_, _)
SkipWs(s, p) ==
  IF p <= Len(s) /\ s[p] \in {" ", NEWLINE} THEN SkipWs(s, p + 1) ELSE p

\* the decoder inside a string, after the opening quote
RECURSIVE ParseString(_, _, _)
ParseString(s, p, acc) ==
  IF p > Len(s) \/ s[p] = NEWLINE THEN ParseError
  ELSE IF s[p] = QUOTE THEN Parsed(JsonStr(acc), p + 1)
  ELSE IF s[p] = BACKSLASH
  THEN IF p + 1 > Len(s) THEN ParseError
       ELSE IF s[p + 1] \in {QUOTE, BACKSLASH}
            THEN ParseString(s, p + 2, acc \o <<s[p + 1]>>)
       ELSE IF s[p + 1] = "n" THEN ParseString(s, p + 2, acc \o <<NEWLINE>>)
       ELSE ParseError
  ELSE ParseString(s, p + 1, acc \o <<s[p]>>)

RECURSIVE ParseInt(_, _, _, _)
ParseInt(s, p, n, any) ==
  IF p <= Len(s) /\ s[p] \in Digits
  THEN ParseInt(s, p + 1,
                n * 10 + (CHOOSE d \in 0..9 : Decimal(d) = <<s[p]>>), TRUE)
  ELSE IF any THEN Parsed(JsonInt(n), p) ELSE ParseError

ParseValue(s, p) ==
  IF p > Len(s) THEN ParseError
  ELSE IF s[p] = QUOTE THEN ParseString(s, p + 1, <<>>)
  ELSE ParseInt(s, p, 0, FALSE)

\* the members of an object, after the opening brace: the pairs read so far
RECURSIVE ParseMembers(_, _, _)
ParseMembers(s, p, pairs) ==
  LET k == IF p <= Len(s) /\ s[p] = QUOTE THEN ParseString(s, p + 1, <<>>)
           ELSE ParseError
      c == SkipWs(s, k.pos)
      v == IF k.ok /\ c <= Len(s) /\ s[c] = ":" THEN ParseValue(s, SkipWs(s, c + 1))
           ELSE ParseError
      e == SkipWs(s, v.pos)
      read == pairs \o <<<<KeyName(k.value.chars), v.value>>>>
  IN  IF ~v.ok \/ e > Len(s) THEN ParseError
      ELSE IF s[e] = "," THEN ParseMembers(s, SkipWs(s, e + 1), read)
      ELSE IF s[e] = "}"
      THEN Parsed([key \in {read[i][1] : i \in 1..Len(read)} |->
                     LET final == CHOOSE i \in 1..Len(read) :
                                   /\ read[i][1] = key
                                   /\ \A j \in (i + 1)..Len(read) : read[j][1] # key
                     IN  read[final][2]],
                  e + 1)
      ELSE ParseError

\* the elements of the list, after the opening bracket
RECURSIVE ParseElements(_, _, _)
ParseElements(s, p, items) ==
  LET o == IF p <= Len(s) /\ s[p] = "{" THEN ParseMembers(s, SkipWs(s, p + 1), <<>>)
           ELSE ParseError
      e == SkipWs(s, o.pos)
  IN  IF ~o.ok \/ e > Len(s) THEN ParseError
      ELSE IF s[e] = "," THEN ParseElements(s, SkipWs(s, e + 1), Append(items, o.value))
      ELSE IF s[e] = "]" THEN Parsed(Append(items, o.value), e + 1)
      ELSE ParseError

\* json.loads of the text of a metadata file: a list of objects
json_loads(s) ==
  LET p == SkipWs(s, 1)
      q == IF p <= Len(s) /\ s[p] = "[" THEN SkipWs(s, p + 1) ELSE 0
      l == IF q = 0 THEN ParseError
           ELSE IF q <= Len(s) /\ s[q] = "]" THEN Parsed(<<>>, q + 1)
           ELSE ParseElements(s, q, <<>>)
  IN  IF l.ok /\ SkipWs(s, l.pos) = Len(s) + 1 THEN l ELSE ParseError

InitJson ==
  /\ NoSession(CrawlScope)
  /\ variant = "playwright"
  /\ \E metadata \in JsonCollections : text = [NoText EXCEPT !.input = metadata]

\* helpers.save_metadata: the collection is written as JSON text
SaveMetadata ==
  /\ text.fn = "none"
  /\ text' = [text EXCEPT !.fn = "save_metadata", !.arg = text.input,
                           !.res = json_dumps(text.input), !.calls = 1]
  /\ UNCHANGED text_only

\* helpers.load_metadata: the text of the file is parsed; a text that does
\* not parse loads as []
LoadMetadata ==
  /\ text.fn = "save_metadata"
  /\ LET content == text.res
         loaded  == json_loads(content)
     IN  text' = [text EXCEPT !.fn = "load_metadata", !.arg = content,
                              !.res = IF loaded.ok THEN loaded.value ELSE <<>>,
                              !.calls = 2]
  /\ UNCHANGED text_only

NextJson == SaveMetadata \/ LoadMetadata

SpecJson == InitJson /\ [][NextJson]_vars

\* ------------------------------------------------------------------ claims

\* the work left in a category run: the pages not yet marked, the queued
\* URLs, the links the page being read may still add, the candidates the
\* session may still handle
InRun == pc \in {"bfs", "images", "save"} /\ caller # "fallback"
RunMeasure ==
  Cardinality(PageUrls \ visited_in_category) * (MaxLinks + 1) * 4
  + Len(category_queue) * 4
  + (CASE pc = "images" -> MaxLinks * 4 + 3
       [] pc = "save"   -> 2
       [] pc = "bfs"    -> 1
       [] OTHER         -> 0)
  + (scope.imgs - img_idx)

\* C1: in a category run every distinct URL is processed at most once (the
\* count of processed pages equals the number of distinct URLs marked), and
\* the run terminates whatever the links between the pages are: every step
\* of the run lowers a measure that cannot go below zero, and the run is
\* left only with an empty queue
C1_BfsTerminates ==
  /\ [](pages_in_category = Cardinality(visited_in_category))
  /\ [](RunMeasure >= 0 /\ (pc = "next_category" => category_queue = <<>>))
  /\ [][InRun => RunMeasure' < RunMeasure]_vars

\* a category run ended after processing two or more pages
C1_Witness ==
  /\ pc = "next_category"
  /\ category_queue = <<>>
  /\ pages_in_category >= 2
  /\ Cardinality(visited_in_category) >= 2

\* the step is a download attempt (a candidate that came with an image URL)
AttemptStep == img_idx' = img_idx + 1 /\ last'.url # NoImage

\* the records of downloaded_images whose original_url is u
RecordsOf(images, u) == {i \in 1..Len(images) : images[i].original_url = u}

\* C2 as stated: whenever an image URL that was offered before in the
\* session is offered again, the attempt performs no fetch and no write, and
\* exactly one record with that original_url exists afterwards
C2_OfferedTwice ==
  [][(AttemptStep /\ last'.url \in offered)
       => /\ ~last'.fetched
          /\ last'.wrote = NoPath
          /\ Cardinality(RecordsOf(downloaded_images', last'.url)) = 1]_vars

\* C2 amended: once an image URL has been downloaded (it is in
\* downloaded_urls) exactly one record has that original_url, no URL ever has
\* two records, and every later attempt for it performs no fetch and no
\* write and changes neither the disk nor the collection
C2_DownloadedOnce ==
  /\ [](\A u \in ImageUrls :
          /\ Cardinality(RecordsOf(downloaded_images, u)) <= 1
          /\ u \in downloaded_urls => Cardinality(RecordsOf(downloaded_images, u)) = 1)
  /\ [][(AttemptStep /\ last'.url \in downloaded_urls)
          => /\ ~last'.fetched
             /\ last'.wrote = NoPath
             /\ last'.result = "duplicate"
             /\ UNCHANGED <<disk, downloaded_images, downloaded_urls>>]_vars

\* a downloaded URL was offered again and skipped as a duplicate
C2_Witness ==
  /\ last.result = "duplicate"
  /\ last.url \in downloaded_urls
  /\ Cardinality(RecordsOf(downloaded_images, last.url)) = 1

\* C3: a record is appended and its URL marked only by an attempt that wrote
\* the whole file; an attempt that fails (status other than 200, network
\* error, error while opening or writing the file) leaves downloaded_urls and
\* downloaded_images unchanged; so every record points to a complete file of
\* its URL and every marked URL has a record
C3_WriteThenMark ==
  /\ [][(AttemptStep /\ last'.result = "failed")
          => UNCHANGED <<downloaded_urls, downloaded_images>>]_vars
  /\ [][(pc = "images" /\ (downloaded_urls' # downloaded_urls
                            \/ downloaded_images' # downloaded_images))
          => /\ AttemptStep
             /\ last'.result = "record"
             /\ \E f \in disk' : /\ PathOf(f) = last'.wrote
                                 /\ f.complete
                                 /\ f.url = last'.url
             /\ downloaded_urls' = downloaded_urls \cup {last'.url}
             /\ Len(downloaded_images') = Len(downloaded_images) + 1
             /\ downloaded_images'[Len(downloaded_images')].original_url = last'.url
             /\ downloaded_images'[Len(downloaded_images')].local_path = last'.wrote]_vars
  /\ [](\A i \in 1..Len(downloaded_images) :
          \E f \in disk : /\ PathOf(f) = downloaded_images[i].local_path
                          /\ f.complete
                          /\ f.url = downloaded_images[i].original_url)
  /\ [](\A u \in downloaded_urls : RecordsOf(downloaded_images, u) # {})

\* a write broke off and left a partial file, and the URL is not marked
C3_Witness ==
  /\ last.result = "failed"
  /\ last.wrote # NoPath
  /\ \E f \in disk : PathOf(f) = last.wrote /\ ~f.complete
  /\ last.url \notin downloaded_urls
  /\ RecordsOf(downloaded_images, last.url) = {}

\* the largest counter a session of the scope can need
MaxCounter == DownloadImgs + 1

\* C4: a download never writes to a path that exists and removes no file;
\* the name written is the URL's filename, or that filename with the first
\* counter _k whose lower candidates all exist; so two images with the same
\* filename in one folder end as two distinct files
C4_NoOverwrite ==
  /\ [][(AttemptStep /\ last'.wrote # NoPath)
          => /\ ~exists(disk, last'.wrote)
             /\ disk \subseteq disk'
             /\ Cardinality(disk') = Cardinality(disk) + 1
             /\ LET name == basename(last'.url)
                    at(n) == Path(last'.wrote.dir, last'.wrote.folder, n)
                IN  \/ last'.wrote.name = name
                    \/ \E k \in 1..MaxCounter :
                         /\ last'.wrote.name = WithCounter(name, k)
                         /\ exists(disk, at(name))
                         /\ \A j \in 1..(k - 1) : exists(disk, at(WithCounter(name, j)))]_vars
  /\ [](\A f, g \in disk : PathOf(f) = PathOf(g) => f = g)

\* two images of different URLs with the same filename lie in one folder,
\* one under the filename and one under the filename with the suffix _1
C4_Witness ==
  \E f, g \in disk :
    /\ f.url # g.url
    /\ basename(f.url) = basename(g.url)
    /\ f.dir = g.dir /\ f.folder = g.folder
    /\ f.complete /\ g.complete
    /\ f.name = basename(f.url)
    /\ g.name = WithCounter(basename(g.url), 1)

\* the extracted category id of a page URL, as the running variant extracts it
CategoryId(url) == _extract_category_from_url(variant, url)

\* C5: every URL in the queue of a category run has the extracted category
\* id of the category's seed URL, and every URL a page adds to the queue has
\* the extracted category id of that page
C5_SameCategory ==
  /\ [](\A i \in 1..Len(category_queue) :
          CategoryId(category_queue[i]) = CategoryId(category_seed))
  /\ [][(pc = "images" /\ pc' = "save")
          => /\ Len(category_queue') >= Len(category_queue)
             /\ SubSeq(category_queue', 1, Len(category_queue)) = category_queue
             /\ \A i \in (Len(category_queue) + 1)..Len(category_queue') :
                  /\ CategoryId(category_queue'[i]) = CategoryId(current_url)
                  /\ CategoryId(category_queue'[i]) = CategoryId(category_seed)]_vars

\* a page of a category run put a URL other than the seed in the queue
C5_Witness ==
  /\ pc = "save"
  /\ page_result = "ok"
  /\ \E i \in 1..Len(category_queue) :
       /\ category_queue[i] # category_seed
       /\ CategoryId(category_queue[i]) = CategoryId(category_seed)

C7_VisitedOnce ==
  /\ [](\A u \in PageUrls : nav_count[u] <= 1)
  /\ [][\A u \in PageUrls :
          nav_count'[u] > nav_count[u] => (run' = run => u \notin visited_urls)]_vars
  /\ [][(run' = run) => visited_urls \subseteq visited_urls']_vars

\* the seed of a later category was visited in an earlier category run of
\* the session, and the page is skipped
C7_Witness ==
  /\ pc = "save"
  /\ page_result = "skipped"
  /\ pages_in_category = 1
  /\ is_allowed_domain(category_seed)
  /\ category_seed \in visited_urls
  /\ nav_count[category_seed] = 1

\* the source URLs of the records persisted in the metadata files
PersistedUrls ==
  UNION {get_downloaded_urls_from_metadata(metadata_files[d].records) : d \in RunDirs}

\* C8: across the runs a source URL is downloaded at most once: no attempt
\* of a run fetches a URL that the persisted records of a run already hold
C8_OncePerUrlAcrossRuns ==
  [][(AttemptStep /\ last'.fetched) => last'.url \notin PersistedUrls]_vars

\* C9: no record is made, no file written and no URL marked for an image
\* URL outside the allowed domain or without a supported extension, or for a
\* payload larger than MAX_IMAGE_SIZE
C9_RejectsUnfit ==
  /\ [](\A i \in 1..Len(downloaded_images) :
          /\ is_allowed_domain(downloaded_images[i].original_url)
          /\ is_image_url(downloaded_images[i].original_url)
          /\ downloaded_images[i].file_size <= MAX_IMAGE_SIZE)
  /\ [](\A f \in disk : is_allowed_domain(f.url) /\ is_image_url(f.url))
  /\ [](\A u \in downloaded_urls : is_allowed_domain(u) /\ is_image_url(u))

\* the step is a save_metadata call
SaveStep == pc \in {"save", "next_category"} /\ save_result' # "none"

\* C10: a save that fails changes neither downloaded_images nor the course
\* of the crawl (after a page the loop goes on with the same queue), and a
\* save that succeeds leaves the metadata file holding exactly the whole
\* in-memory collection
C10_SaveFailureKeepsMemory ==
  /\ [][(SaveStep /\ save_result' = "failed")
          => /\ UNCHANGED <<downloaded_images, downloaded_urls, category_vars, run>>
             /\ pc = "save" => pc' = "bfs"
             /\ pc = "next_category" => pc' = "idle"]_vars
  /\ [][(SaveStep /\ save_result' = "ok")
          => metadata_files'[run_dir] = Saved(downloaded_images)]_vars
  /\ [][SaveStep => downloaded_images' = downloaded_images]_vars
  /\ [](save_result = "ok"
          => load_metadata(metadata_files[run_dir]) = downloaded_images)

\* a save failed with a record in memory that the file does not hold, and
\* the category run goes on with a URL in the queue
C10_Witness ==
  /\ pc = "bfs"
  /\ save_result = "failed"
  /\ category_queue # <<>>
  /\ downloaded_images # <<>>
  /\ load_metadata(metadata_files[run_dir]) # downloaded_images

\* C15: clean_category is idempotent: applied to its own result it returns
\* that result
C15_Idempotent ==
  [][(text.fn = "clean_category" /\ text'.fn = "clean_category")
       => (text'.arg = text.res /\ text'.res = text.res)]_vars

\* a raw name that the first call changed, cleaned a second time
C15_Witness ==
  /\ text.fn = "clean_category" /\ text.calls = 2
  /\ text.res # text.input /\ text.res # MISC

\* the shape of a slug
IsSlug(s) ==
  /\ s # <<>>
  /\ \A i \in 1..Len(s) : s[i] \in LowerLetters \cup Digits \cup {"-"}
  /\ s[1] # "-" /\ s[Len(s)] # "-"
  /\ \A i \in 1..(Len(s) - 1) : ~(s[i] = "-" /\ s[i + 1] = "-")

\* C16: clean_category returns "miscellaneous" or a non-empty text of a-z,
\* 0-9 and '-' without a hyphen at either end or two hyphens in a row;
\* "Fauves & Animaux" gives "fauves-animaux"
C16_SlugShape ==
  text.fn = "clean_category" =>
    /\ text.res = MISC \/ IsSlug(text.res)
    /\ text.arg = FAUVES =>
         text.res = <<"f","a","u","v","e","s","-","a","n","i","m","a","u","x">>

\* a name with an accent, a foreign character and a separator at the end
C16_Witness ==
  /\ text.fn = "clean_category" /\ text.calls = 1
  /\ text.arg = <<"é", "&", "_">> /\ text.res = <<"e">>

\* C17: extract_last_three_digits joins the digits of the name without its
\* extension, keeps the last three and pads with zeros on the left; the
\* result is always three digits
C17_LastThreeDigits ==
  text.fn = "extract_last_three_digits" =>
    /\ Len(text.res) = 3 /\ \A i \in 1..3 : text.res[i] \in Digits
    /\ LET digits == SelectSeq(splitext(text.arg)[1], LAMBDA c : c \in Digits)
           padded == <<"0","0","0">> \o digits
       IN  text.res = SubSeq(padded, Len(padded) - 2, Len(padded))
    /\ text.arg = PHOTO001 => text.res = <<"0","0","1">>
    /\ text.arg = IMG => text.res = <<"0","0","0">>
    /\ text.arg = A1B2 => text.res = <<"0","1","2">>

\* a name whose digits are split by a letter, with a digit in the extension
C17_Witness ==
  /\ text.fn = "extract_last_three_digits"
  /\ text.arg = <<"1", ".", "2">> /\ text.res = <<"0","0","1">>

\* a turn of the renamer's loop, or its end
RenameStep == pc = "rename"

\* C11: with dry_run set, rename_files_in_metadata moves no file, makes and
\* removes no folder, changes no record and does not write the metadata
\* file, also for items whose new name or category differs
C11_DryRunMutatesNothing ==
  [][(RenameStep /\ renamer.dry_run)
       => /\ disk' = disk
          /\ dirs' = dirs
          /\ metadata_files' = metadata_files
          /\ renamer'.metadata = renamer.metadata
          /\ renamer'.renamed_count = 0]_vars

\* a dry run has reported an item whose new name differs from its name
C11_Witness ==
  /\ renamer.dry_run /\ renamer.outcome = "dry_run"
  /\ LET it == Item(renamer.metadata, renamer.i - 1, disk)
     IN  ~it.missing /\ ~it.unchanged /\ it.final_new_path # it.current_path

\* the records of a pass that has returned
PassReturned == pc = "idle" /\ renamer.outcome = "returned" /\ ~renamer.dry_run

\* a move of the renamer goes to a path that held no file
MoveToFreePath ==
  (RenameStep /\ renamer'.moved_to # NoPath) => ~exists(disk, renamer'.moved_to)

C13_FailureIsolated ==
  [][(/\ RenameStep /\ renamer.i <= Len(renamer.metadata)
      /\ \/ Item(renamer.metadata, renamer.i, disk).missing
         \/ renamer'.outcome = "error")
       => /\ renamer'.metadata = renamer.metadata
          /\ disk' = disk
          /\ renamer'.error_count = renamer.error_count + 1
          /\ renamer'.renamed_count = renamer.renamed_count
          /\ renamer'.i = renamer.i + 1
          /\ pc' = "rename"]_vars

\* the first item's file is missing and was counted, the second was renamed
C13_Witness ==
  /\ pc = "rename" /\ renamer.i = 3
  /\ renamer.error_count = 1 /\ renamer.renamed_count = 1
  /\ renamer.outcome = "renamed"
  /\ ~exists(disk, renamer.metadata[1].local_path)

\* C14 as stated: every record names a file that exists: the records of the
\* session while it runs, and the records of every metadata file whenever
\* no pass of the renamer is under way
C14_LocalPathExists ==
  /\ pc \notin {"idle", "rename"} =>
       \A i \in 1..Len(downloaded_images) :
         exists(disk, downloaded_images[i].local_path)
  /\ pc # "rename" =>
       \A d \in RunDirs : \A i \in 1..Len(load_metadata(metadata_files[d])) :
         exists(disk, load_metadata(metadata_files[d])[i].local_path)

\* C18: a non-empty collection saved by save_metadata and loaded by
\* load_metadata comes back equal: the same records in the same order, field
\* for field
C18_RoundTrip ==
  text.fn = "load_metadata" =>
    /\ Len(text.res) = Len(text.input)
    /\ \A i \in 1..Len(text.input) :
         /\ DOMAIN text.res[i] = {"title", "file_size"}
         /\ text.res[i].title = text.input[i].title
         /\ text.res[i].file_size = text.input[i].file_size

\* two different records, one with a quote and one with a backslash in its
\* title, were saved and loaded
C18_Witness ==
  /\ text.fn = "load_metadata" /\ Len(text.input) = 2
  /\ text.input[1].title = JsonStr(<<QUOTE>>)
  /\ text.input[2].title = JsonStr(<<BACKSLASH>>)
  /\ text.input[1].file_size # text.input[2].file_size
  /\ text.res = text.input

\* C19 as stated: after an interrupt of a session the metadata file holds
\* the records the session had in memory, and it is never left cut off
C19_InterruptFlushes ==
  page_result = "interrupted" =>
    /\ metadata_files[run_dir] # Corrupt
    /\ downloaded_images # <<>> => metadata_files[run_dir] = Saved(downloaded_images)

\* C20 as stated: when the overlay does not appear for a gallery image, the
\* element's own source is downloaded and the session holds a record of it
\* with an empty title
C20_FallbackDownloaded ==
  [][(img_idx' = img_idx + 1 /\ last'.preview # NoImage)
       => /\ last'.preview \in downloaded_urls'
          /\ \E i \in 1..Len(downloaded_images') :
               /\ downloaded_images'[i].original_url = last'.preview
               /\ downloaded_images'[i].title = <<>>
               /\ exists(disk', downloaded_images'[i].local_path)]_vars

\* C21 as stated: the caption text "40 x5 0 cm" yields the dimensions field
\* "40x50cm"
C21_DimensionsCompact ==
  (text.fn = "parse_caption" /\ text.arg = CAPTION_DEFECT)
    => text.res.dimensions = <<"4","0","x","5","0","c","m">>

\* a caption that is a number, an x and a number split in two by a space
SplitCaption(t) ==
  \E n, a, b \in 1..Len(t) :
    /\ n + 1 + a + 1 + b = Len(t)
    /\ \A i \in 1..Len(t) :
         IF i = n + 1 THEN t[i] = "x"
         ELSE IF i = n + 1 + a + 1 THEN t[i] = " "
         ELSE t[i] \in Digits

\* C21 (amended): the digits that a space splits after the x are joined
\* before the dimension pattern is matched, and only spaces are dropped:
\* "40 x5 0 cm" yields "40 x50 cm", a caption of the form <n>x<a> <b>
\* yields <n>x<a><b>, and the dimensions field without its spaces reads as
\* a part of the caption without its spaces
C21_SplitDigitsJoined ==
  text.fn = "parse_caption" =>
    LET Unspaced(t) == SelectSeq(t, LAMBDA c : c # " ")
        d == Unspaced(text.res.dimensions)
        c == Unspaced(text.arg)
    IN  /\ text.arg = CAPTION_DEFECT =>
             text.res.dimensions = <<"4","0"," ","x","5","0"," ","c","m">>
        /\ SplitCaption(text.arg) => text.res.dimensions = Unspaced(text.arg)
        /\ \E i \in 0..(Len(c) - Len(d)) : SubSeq(c, i + 1, i + Len(d)) = d

\* the caption "40 x5 0 cm" was parsed and gave a dimensions field
C21_Witness ==
  /\ text.fn = "parse_caption"
  /\ text.arg = CAPTION_DEFECT
  /\ text.res.dimensions # <<>>

\* C22: the category list built from a gallery page has no two entries with
\* the same value; it holds, for every galerie id among the links that carry
\* galerie and ng, the first such link, in the order of first occurrence
C22_UniqueByValue ==
  text.fn = "extract_gallery_categories_simple" =>
    LET links == SelectSeq(text.arg, LAMBDA u : u.galerie # <<>> /\ u.ng # <<>>)
        categories == text.res
        First(id) == CHOOSE k \in 1..Len(links) :
                       /\ links[k].galerie = id
                       /\ \A m \in 1..(k - 1) : links[m].galerie # id
    IN  /\ \A i, j \in 1..Len(categories) :
             i # j => categories[i].value # categories[j].value
        /\ {categories[i].value : i \in 1..Len(categories)}
             = {links[k].galerie : k \in 1..Len(links)}
        /\ \A i \in 1..Len(categories) :
             categories[i].url = links[First(categories[i].value)]
        /\ \A i, j \in 1..Len(categories) :
             i < j => First(categories[i].value) < First(categories[j].value)

\* a list was built from a page with two different links to one galerie
\* and a link to another galerie after them
C22_Witness ==
  /\ text.fn = "extract_gallery_categories_simple"
  /\ Len(text.res) = 2
  /\ \E i, j \in 1..Len(text.arg) :
       /\ i < j
       /\ text.arg[i].galerie = text.arg[j].galerie
       /\ text.arg[i] # text.arg[j]
       /\ text.arg[i].ng # <<>> /\ text.arg[j].ng # <<>>

\* C23 as stated, seen where the list is returned: the pagination links of
\* a page, which the category loop appends to the queue in their order when
\* they are not visited yet, hold no URL twice
C23_LinksOnce ==
  [][(pc = "images" /\ pc' = "save") =>
       LET added == SubSeq(category_queue', Len(category_queue) + 1,
                           Len(category_queue'))
       IN  \A i, j \in 1..Len(added) : i # j => added[i] # added[j]]_vars

\* C24 as stated: when crawl_website_advanced returns and the saves
\* succeeded, every record of the session's collection is in the persisted
\* metadata file, also when the gallery page was crawled directly because no
\* category was found
C24_ReturnPersistsAll ==
  [][(pc # "idle" /\ pc' = "idle") =>
       LET persisted == load_metadata(metadata_files'[run_dir'])
       IN  \A i \in 1..Len(downloaded_images') :
             \E k \in 1..Len(persisted) : persisted[k] = downloaded_images'[i]]_vars

\* the URLs that can be reached from urls through the same-category numbered
\* pagination links of the pages of the site
RECURSIVE Reachable(_)
Reachable(urls) ==
  LET linked == UNION {SeqToSet(PaginationLinks(u, scope.site[u])) :
                         u \in urls \cap DOMAIN scope.site}
  IN  IF linked \subseteq urls THEN urls ELSE Reachable(urls \cup linked)

\* a category run has just ended
RunEnded == pc = "next_category" /\ category_seed # NoUrl

\* C25 as stated: when no page fails, the category run has visited, when it
\* ends, every URL that can be reached from its seed through same-category
\* numbered pagination links
C25_RunVisitsReachable ==
  RunEnded => Reachable({category_seed}) \subseteq visited_in_category

\* C25 (amended): when no page fails and a category run ends, its seed is
\* marked and every URL of the allowed domain that can be reached from the
\* seed through same-category numbered pagination links has been loaded in
\* the session, by this run or by an earlier one
C25_ReachableLoaded ==
  RunEnded =>
    /\ category_seed \in visited_in_category
    /\ \A v \in Reachable({category_seed}) :
         is_allowed_domain(v) => v \in visited_urls /\ nav_count[v] = 1

\* a category run ended that followed a pagination link to a second page
C25_Witness ==
  /\ RunEnded
  /\ \E v \in Reachable({category_seed}) \ {category_seed} :
       v \in visited_in_category /\ v \in visited_urls

\* C26: in the debug crawler's standard extraction path a URL that is
\* already in downloaded_urls is not fetched again: every GET of an image
\* step is for a URL that was not marked before the step
C26_TestedIsFetched ==
  [][(variant = "debug" /\ img_idx' # img_idx /\ last'.fetched)
       => last'.url \notin downloaded_urls]_vars

\* the URLs a step appends to the category queue
Enqueued ==
  IF Len(category_queue') > Len(category_queue)
  THEN {category_queue'[i] : i \in (Len(category_queue) + 1)..Len(category_queue')}
  ELSE {}

\* C27 as stated: the category queue never holds two copies of the same URL
C27_QueueNoCopies ==
  \A i, j \in 1..Len(category_queue) :
     category_queue[i] = category_queue[j] => i = j

\* C27: a URL is enqueued only while it is not marked visited in the
\* category, and a popped URL that is already marked is dropped without
\* being counted or loaded again, whatever copies of it the queue held
C27_CopiesSkipped ==
  [][/\ (pc = "images" /\ pc' = "save")
          => Enqueued \cap visited_in_category = {}
     /\ (pc = "bfs" /\ category_queue # <<>>
           /\ Head(category_queue) \in visited_in_category
           /\ category_queue' # category_queue)
          => /\ category_queue' = Tail(category_queue)
             /\ pages_in_category' = pages_in_category
             /\ nav_count' = nav_count
             /\ visited_urls' = visited_urls
             /\ pc' = "bfs"]_vars

\* a copy of a URL already marked visited in the category is the next to pop
C27_Witness ==
  /\ pc = "bfs"
  /\ category_queue # <<>>
  /\ Head(category_queue) \in visited_in_category

\* C28: the overlay a candidate opened is closed before the next candidate
\* is handled, on every path: no candidate of the Playwright crawler's page
\* is handled while an overlay is open
C28_OverlayClosedBeforeNext ==
  [][(variant = "playwright" /\ pc = "images" /\ img_idx' = img_idx + 1)
       => ~overlay_open]_vars

\* C29 as stated: the category of every record is folder-safe and is the
\* name of the folder that holds the record's file
C29_CategoryIsFolder ==
  \A i \in 1..Len(downloaded_images) :
     LET r == downloaded_images[i]
     IN  /\ r.category = clean_description_for_folder(r.category)
         /\ r.category = r.local_path.folder

\* C29: the file of every record lies in the run's images directory, in the
\* folder clean_description_for_folder names for the record's category, or
\* in the images directory itself when that folder could not be made
C29_FolderFromCategory ==
  \A i \in 1..Len(downloaded_images) :
     LET r == downloaded_images[i]
     IN  /\ r.local_path.dir = r.crawl_run
         /\ r.local_path.folder \in {clean_description_for_folder(r.category), <<>>}

\* a record whose category is not the name of its folder, and a record
\* stored in the images directory itself
C29_Witness ==
  /\ \E i \in 1..Len(downloaded_images) :
       LET r == downloaded_images[i]
       IN  /\ r.local_path.folder = clean_description_for_folder(r.category)
           /\ r.local_path.folder # r.category
  /\ \E i \in 1..Len(downloaded_images) :
       downloaded_images[i].local_path.folder = <<>>

\* C30: in a category run every page that was counted, whether it was read,
\* skipped or failed, is followed by a save_metadata call on the whole
\* collection before the loop pops again: the turn ends at the save, and the
\* save is left only by an attempt that, when it succeeds, leaves the file
\* holding exactly self.downloaded_images
C30_SaveAfterEachPage ==
  [][/\ (pc = "images" /\ caller = "bfs" /\ pc' # "images") => pc' = "save"
     /\ (pc = "bfs" /\ pages_in_category' = pages_in_category + 1
            /\ pc' # "images") => pc' = "save"
     /\ (pc = "save" /\ pc' # "save")
          => /\ pc' = "bfs"
             /\ save_result' \in {"ok", "failed"}
             /\ save_result' = "ok"
                  => /\ metadata_files'[run_dir].state = "ok"
                     /\ metadata_files'[run_dir].records = downloaded_images
     /\ (pages_in_category' = pages_in_category + 1) => pc = "bfs"]_vars

\* the save after the second page of a category run succeeded with records
\* in memory
C30_Witness ==
  /\ pc = "bfs"
  /\ pages_in_category = 2
  /\ save_result = "ok"
  /\ downloaded_images # <<>>
  /\ metadata_files[run_dir].records = downloaded_images

\* the candidate just handled by the Playwright crawler failed: its overlay
\* did not resolve, or its download did not yield a record
CandidateFailed ==
  /\ variant = "playwright"
  /\ pc = "images"
  /\ last.result = "failed" \/ last.preview # NoImage

C32_SecondPassChangesNothing ==
  [][(pc = "rename" /\ renamer.passes = 2 /\ ~renamer.dry_run)
       => /\ disk' = disk
          /\ renamer'.metadata = renamer.metadata
          /\ load_metadata(metadata_files'[renamer.metadata_file])
               = load_metadata(metadata_files[renamer.metadata_file])]_vars

\* C33: a category run starts with the seed URL alone in the queue; the
\* queue changes only by losing its head and by gaining URLs at its tail,
\* and the URL a turn marks and counts is the head, so URLs are processed
\* in the order of their first enqueue
C33_Fifo ==
  [][/\ (pc = "next_category" /\ pc' = "bfs")
          => /\ category_queue' = <<category_seed'>>
             /\ visited_in_category' = {}
     /\ (pc = "bfs" /\ category_queue' # category_queue)
          => /\ category_queue # <<>>
             /\ Len(category_queue') >= Len(category_queue) - 1
             /\ SubSeq(category_queue', 1, Len(category_queue) - 1)
                  = Tail(category_queue)
             /\ visited_in_category' \subseteq
                  visited_in_category \cup {Head(category_queue)}
     /\ (pc = "images" /\ category_queue' # category_queue)
          => /\ Len(category_queue') > Len(category_queue)
             /\ SubSeq(category_queue', 1, Len(category_queue)) = category_queue
     /\ (pc \in {"bfs", "images", "save"} /\ pc' \in {"bfs", "images", "save"}
            /\ visited_in_category' # visited_in_category)
          => /\ pc = "bfs"
             /\ visited_in_category' = visited_in_category \cup {Head(category_queue)}
             /\ pages_in_category' = pages_in_category + 1]_vars

\* two pages of a category were processed and a URL enqueued after them is
\* the next to pop
C33_Witness ==
  /\ pc = "bfs"
  /\ pages_in_category = 2
  /\ category_queue # <<>>
  /\ Head(category_queue) \notin visited_in_category

\* C34: a URL whose host is outside the allowed domain is never navigated
\* to and never added to visited_urls; popped from a category queue it is
\* skipped: no image is attempted and no link is enqueued
C34_OffDomainSkipped ==
  /\ [](\A u \in PageUrls :
          ~is_allowed_domain(u) => nav_count[u] = 0 /\ u \notin visited_urls)
  /\ [][(pc = "bfs" /\ category_queue # <<>>
           /\ Head(category_queue) \notin visited_in_category
           /\ ~is_allowed_domain(Head(category_queue)))
          => /\ pc' = "save"
             /\ page_result' = "skipped"
             /\ category_queue' = Tail(category_queue)
             /\ UNCHANGED <<download_vars, visited_urls, nav_count, img_idx>>]_vars

\* a URL of another host was popped in a category run and skipped
C34_Witness ==
  /\ pc = "save"
  /\ page_result = "skipped"
  /\ \E u \in visited_in_category :
       /\ ~is_allowed_domain(u)
       /\ u \notin visited_urls
       /\ nav_count[u] = 0
  /\ \A u \in visited_in_category : is_allowed_domain(u) => u \in visited_urls

\* C35: a page is in visited_urls from its navigation on, whether the load
\* or the extraction fails or not, and a page that was navigated to is not
\* navigated to again in the session
C35_FailedNotRetried ==
  [][/\ (pc = "bfs" /\ page_result' = "failed")
          => Head(category_queue) \in visited_urls'
     /\ (pc = "images" /\ page_result' = "failed")
          => current_url \in visited_urls'
     /\ \A u \in PageUrls :
          /\ nav_count'[u] > nav_count[u] => u \in visited_urls'
          /\ (u \in visited_urls /\ run' = run)
               => u \in visited_urls' /\ nav_count'[u] = nav_count[u]]_vars

\* the load of a category's seed page failed: the page is marked, counted
\* and left behind
C35_Witness ==
  /\ pc = "save"
  /\ page_result = "failed"
  /\ pages_in_category = 1
  /\ category_queue = <<>>
  /\ category_seed \in visited_urls
  /\ nav_count[category_seed] = 1

\* the category name the source page URL carries, NONE when it carries none
UrlCategory(page) ==
  IF page.ng # <<>> /\ Strip(unquote_plus(page.ng)) # <<>>
  THEN Strip(unquote_plus(page.ng)) ELSE NONE

\* the categories that the descriptions of the scope's images clean to
DescriptionCategories ==
  {clean_description_for_folder(IF d # <<>> THEN d ELSE NO_DESCRIPTION) :
     d \in scope.descs}

\* C36 as stated: the category of a record is the one of its source page
\* URL when there is one, else the one derived from the image's caption or
\* description
C36_UrlElseCaption ==
  \A i \in 1..Len(downloaded_images) :
     LET r == downloaded_images[i]
     IN  IF UrlCategory(r.source_page) # NONE
         THEN r.category = UrlCategory(r.source_page)
         ELSE r.category \in
                IF variant = "crawl4ai" THEN DescriptionCategories
                ELSE {clean_description_for_folder(r.title)}

\* C36: the category of a record is the one of its source page URL when
\* there is one; else it is the cleaned description in download_image and
\* the fixed name "miscellaneous" in the Playwright crawler, whatever the
\* caption says
C36_UrlElseFallback ==
  \A i \in 1..Len(downloaded_images) :
     LET r == downloaded_images[i]
     IN  IF UrlCategory(r.source_page) # NONE
         THEN r.category = UrlCategory(r.source_page)
         ELSE r.category \in
                IF variant = "crawl4ai" THEN DescriptionCategories ELSE {MISC}

\* a record of the Playwright crawler from a page without a category, of an
\* image that has a caption
C36_Witness ==
  /\ variant = "playwright"
  /\ \E i \in 1..Len(downloaded_images) :
       /\ UrlCategory(downloaded_images[i].source_page) = NONE
       /\ downloaded_images[i].title # <<>>
       /\ downloaded_images[i].category = MISC

\* two records that differ at most in filename, local_path and category
SameButRenamed(before, after) ==
  [before EXCEPT !.filename = after.filename,
                 !.local_path = after.local_path,
                 !.category = after.category] = after

\* two collections of the same length whose records, place by place, differ
\* at most in the three fields
SameButRenamedAll(before, after) ==
  /\ Len(after) = Len(before)
  /\ \A i \in 1..Len(before) : SameButRenamed(before[i], after[i])

StepsImgs == 2

StepsScope ==
  [OverlayScope EXCEPT
     !.images = {Img(SITE, 1, <<"a">>, <<>>, ".jpg"), Img(SITE, 2, <<"a">>, <<>>, ".jpg")},
     !.imgs = StepsImgs,
     !.write = {"ok", "write_failed"}]

InitSteps == InitIn(StepsScope)

\* a download attempt has passed its check and has not returned yet
InFlight == pc \in {"fetch", "write"}

\* a check that another coroutine could make while an attempt is suspended
\* at one of its awaits (fault for C38)
CheckDownload_overlapping(fullres_src) ==
  /\ pc \in {"images", "fetch", "write"}
  /\ variant = "playwright"
  /\ img_idx < scope.imgs
  /\ fullres_src \notin downloaded_urls
  /\ pc' = "fetch"
  /\ last' = Attempt(fullres_src, FALSE, NoPath, FALSE, "checked")
  /\ offered' = offered \cup {fullres_src}
  /\ overlay_open' = TRUE
  /\ UNCHANGED <<session_vars, category_vars, downloaded_images, downloaded_urls,
                 categories_found, disk, dirs, img_idx, visited_urls, nav_count,
                 current_url, caller, metadata_files, page_result, save_result>>

\* crawler.py 425-427: the check of downloaded_urls answered "not yet" and
\* _download_image_from_lightbox is awaited, the lightbox being open
CheckDownload(fullres_src) ==
  /\ pc = "images"
  /\ variant = "playwright"
  /\ img_idx < scope.imgs
  /\ fullres_src \notin downloaded_urls
  /\ pc' = "fetch"
  /\ last' = Attempt(fullres_src, FALSE, NoPath, FALSE, "checked")
  /\ offered' = offered \cup {fullres_src}
  /\ overlay_open' = TRUE
  /\ UNCHANGED <<session_vars, category_vars, downloaded_images, downloaded_urls,
                 categories_found, disk, dirs, img_idx, visited_urls, nav_count,
                 current_url, caller, metadata_files, page_result, save_result>>

\* crawler.py 229-231 and 279-284: the awaited GET and read; an answer
\* other than 200 or an exception ends the attempt with None, and the
\* candidate loop closes the lightbox and goes on
FetchImage(fetch, overlay) ==
  /\ pc = "fetch"
  /\ IF fetch = "200"
     THEN /\ pc' = "write"
          /\ last' = [last EXCEPT !.fetched = TRUE]
          /\ UNCHANGED <<downloaded_images, downloaded_urls, categories_found,
                         disk, dirs, img_idx, overlay_open>>
     ELSE /\ pc' = "images"
          /\ Bookkeeping(FetchFailed(last.url))
          /\ img_idx' = img_idx + 1
          /\ overlay_open' = OverlayAfter(overlay)
  /\ UNCHANGED <<session_vars, category_vars, offered, visited_urls, nav_count,
                 current_url, caller, metadata_files, page_result, save_result>>

\* crawler.py 233-277 and 431-438: the folder, the conflict-free name, the
\* awaited write, the record returned and, with no await in between, the
\* append to downloaded_images and the mark in downloaded_urls; then the
\* lightbox is closed
WriteImage(size, mkdir_ok, write, overlay) ==
  /\ pc = "write"
  /\ pc' = "images"
  /\ Bookkeeping(Store(last.url, current_url, LightboxCategory(current_url),
                        size, mkdir_ok, write))
  /\ img_idx' = img_idx + 1
  /\ overlay_open' = OverlayAfter(overlay)
  /\ UNCHANGED <<session_vars, category_vars, offered, visited_urls, nav_count,
                 current_url, caller, metadata_files, page_result, save_result>>

\* the candidates that lead to no GET: filtered out, overlay failed, no
\* high-resolution element, or already downloaded
NoFetchImage(gallery, overlay, abs_src, fullres_src) ==
  /\ \/ ~gallery
     \/ overlay \in {"timeout", "raised"}
     \/ fullres_src = NoImage
     \/ fullres_src \in downloaded_urls
  /\ LightboxImage(gallery, overlay, abs_src, fullres_src)

NextSteps ==
  \/ \E ts \in scope.timestamped : StartSession(ts)
  \/ \E found \in BOOLEAN : DiscoverGallery(found)
  \/ \E links \in SeqsUpTo(scope.pages \cap SeedUrls, scope.cats), ok \in BOOLEAN,
        n \in 1..scope.cats, nav_ok \in BOOLEAN :
        ExtractCategories(links, ok, n, nav_ok)
  \/ \E so \in scope.save : NextCategory(so)
  \/ \E nav_ok \in BOOLEAN : PopUrl(nav_ok)
  \/ \E so \in scope.save : SavePage(so)
  \/ CategoryExhausted
  \/ \E gallery \in BOOLEAN, overlay \in OverlayOutcomes,
        abs_src \in scope.previews, fullres_src \in scope.images \cup {NoImage} :
        NoFetchImage(gallery, overlay, abs_src, fullres_src)
  \/ \E fullres_src \in scope.images : CheckDownload(fullres_src)
  \/ \E fetch \in scope.fetch, overlay \in {"ok", "no_close"} :
        FetchImage(fetch, overlay)
  \/ \E size \in scope.sizes, mkdir_ok \in scope.mkdir, write \in scope.write,
        overlay \in {"ok", "no_close"} :
        WriteImage(size, mkdir_ok, write, overlay)
  \/ \E links \in SeqsUpTo(Links, scope.links) : FinishPage(links)
  \/ PageError

SpecSteps == InitSteps /\ [][NextSteps]_vars

\* C38: in a crawl session no two downloads overlap: while an attempt is
\* between its check and its return, every step is a step of that attempt,
\* no other check begins, nothing but that attempt's URL is marked, and
\* the answer of its check still holds when it marks
C38_NoOverlap ==
  /\ [](InFlight => last.url \notin downloaded_urls)
  /\ [][/\ (InFlight
              => /\ last'.url = last.url
                 /\ offered' = offered
                 /\ current_url' = current_url
                 /\ pc' \in {"write", "images"}
                 /\ downloaded_urls' \subseteq downloaded_urls \cup {last.url}
                 /\ Len(downloaded_images') <= Len(downloaded_images) + 1)
         /\ ((pc' = "fetch" /\ last' # last) => pc = "images")]_vars

\* two downloads made one after the other on one page, each through its
\* check, its GET, its write and its mark
C38_Witness ==
  /\ pc = "images"
  /\ variant = "playwright"
  /\ img_idx = 2
  /\ last.result = "record"
  /\ Len(downloaded_images) = 2
  /\ Cardinality(downloaded_urls) = 2

\* C39: downloaded_urls is the set of the original_url values of the
\* records in downloaded_images, those preloaded from the run's metadata
\* file included; every download attempt being one step here, no state lies
\* inside a download
C39_UrlsAreRecordUrls ==
  downloaded_urls = {downloaded_images[i].original_url : i \in 1..Len(downloaded_images)}

\* a later session of the same run directory that started from a preloaded
\* record and stored a record of its own
C39_Witness ==
  /\ run = 2
  /\ pc = "images"
  /\ Len(downloaded_images) = 2
  /\ last.result = "record"
  /\ load_metadata(metadata_files[run_dir]) = <<downloaded_images[1]>>

\* ------------------------------------------ folders the renamer cleans up
\* the clean scope: the live scope over the category written ng=C%2Bd,
\* whose download folder c_d is not the folder c-d of the cleaned category;
\* the file of a download may fail to open after its folder was made, and a
\* move may fail
CleanScope ==
  [LiveScope EXCEPT !.pages = {GalleryUrl, Url(SITE, <<"3">>, NgCd, 1)},
                    !.write = {"ok", "open_failed"},
                    !.move = {"ok", "failed"}]

InitClean == InitIn(CleanScope)
SpecClean == InitClean /\ [][NextRename]_vars

\* the category folders without a file under the images directory that
\* belongs to metadata_file
EmptyDirsOf(metadata_file, files, folders) ==
  {d \in folders : /\ d.dir = metadata_file
                    /\ ~\E f \in files : f.dir = d.dir /\ f.folder = d.folder}

\* the step in which a live call that went through its loop returns
LivePassReturns == pc = "rename" /\ pc' = "idle" /\ ~renamer.dry_run

\* the step of a live call that loaded no record and returned at once
LivePassEmpty ==
  /\ pc = "idle" /\ pc' = "idle"
  /\ renamer'.passes = renamer.passes + 1
  /\ ~renamer'.dry_run

====
